---- MODULE Spec2Model ----
(***************************************************************************)
(* MacroAlpha: the ETL loader (etl_import.py), the date repair script     *)
(* (fix_dates.py), the snapshot consolidator (combine_memb.py) and the     *)
(* exporter (export_results.py) as state machines, with the helper         *)
(* functions clean_value and parse_bloomberg_date as operators over        *)
(* character sequences.                                                    *)
(*                                                                         *)
(* A Python str is a sequence of one-character strings; a spreadsheet cell *)
(* is a record [k |-> "nan"] (a missing cell), [k |-> "str", s |-> chars]  *)
(* or [k |-> "dt", y, m, d] (a datetime cell).                             *)
(***************************************************************************)
EXTENDS Integers, Sequences, FiniteSets, TLC

VARIABLES
    cv_in, cv_out,          \* clean_value: the argument and the returned value
    pd_in, pd_out,          \* parse_bloomberg_date: the argument and the result
    fd_i,                   \* fix_dates: position in the list `files` (1-based)
    fd_books,               \* fix_dates: the workbooks on disk, by position
    fd_log,                 \* fix_dates: what the script has printed
    macroalpha_db,          \* the committed content of macroalpha.db
    id_map,                 \* main's ticker_to_id: the dict import_companies
                            \* returns, as the later imports update it
    ld_phase,               \* loader: "new", "companies", "once", "twice", "failed"
    ld_call,                \* loader: the import last called and its input
    ld_base,                \* loader: db and ticker_to_id before that call
    ld_first,               \* loader: what that call returned the first time
    etl_pc,                 \* main: the statement of the try block to run next
    etl_log,                \* main: the statements run so far and how each ended
    etl_out,                \* main: what main has printed
    etl_conn,               \* main: the connection, "open" or "closed"
    num_months,             \* import_macro: df.shape[1] - 2
    col_offset,             \* import_macro: the loop variable of the calendar
    date_map,               \* import_macro: column index -> date, so far
    pw_ticker_row,          \* import_prices_weekly: ticker_row, df.iloc[3]
    pw_field_row,           \* import_prices_weekly: field_row, df.iloc[4]
    pw_col,                 \* import_prices_weekly: col of the while loop
    pw_ticker_cols,         \* import_prices_weekly: the dict ticker_cols, so far
    cm_files,               \* combine_memb: the list `files`, sorted
    cm_i,                   \* combine_memb: position of the loop in cm_files
    cm_rows,                \* combine_memb: the list `rows` of frames
    cm_csv,                 \* combine_memb: index_membership_snapshot.csv
    cm_state,               \* combine_memb: "reading", "saved" or "raised"
    ex_i,                   \* export_results: position of main's loop in QUERIES
    ex_log,                 \* export_results: the calls of export_query so far
    success_count,          \* export_results: main's success_count
    ex_out,                 \* export_results: what main has printed at its end
    cat_name,               \* import_macro: indicator_name of the row at hand
    category,               \* import_macro: the category given to that row
    pr_sheet,               \* import_prices_weekly: the workbook that is read
    pr_row_idx,             \* import_prices_weekly: row_idx of the data loop
    pr_conn,                \* import_prices_weekly: the table as the connection
                            \* sees it, the dict and count, [table, map, count]
    pr_state,               \* import_prices_weekly: "loop", "returned",
                            \* "raised", or "closed" after main's finally
    viz_debt,               \* plot_uc2_leverage: total_debt of the ANNUAL
                            \* rows of one company, by year
    viz_sector,             \* plot_uc2_leverage: gics_sector_name of the company
    viz_df                  \* plot_uc2_leverage: the frame df of the query

cleanVars == <<cv_in, cv_out>>
dateVars == <<pd_in, pd_out>>
fixVars == <<fd_i, fd_books, fd_log>>
dbVars == <<macroalpha_db, id_map>>
loadVars == <<ld_phase, ld_call, ld_base, ld_first>>
etlVars == <<etl_pc, etl_log, etl_out, etl_conn>>
macroVars == <<num_months, col_offset, date_map>>
colVars == <<pw_ticker_row, pw_field_row, pw_col, pw_ticker_cols>>
combVars == <<cm_files, cm_i, cm_rows, cm_csv, cm_state>>
expVars == <<ex_i, ex_log, success_count, ex_out>>
catVars == <<cat_name, category>>
priceVars == <<pr_sheet, pr_row_idx, pr_conn, pr_state>>
vizVars == <<viz_debt, viz_sector, viz_df>>
lateVars == <<catVars, priceVars, vizVars>>
moreVars == <<macroVars, colVars, combVars, expVars, lateVars>>
coreVars == <<cv_in, cv_out, pd_in, pd_out, fd_i, fd_books, fd_log,
              macroalpha_db, id_map, ld_phase, ld_call, ld_base, ld_first,
              etl_pc, etl_log, etl_out, etl_conn, lateVars>>
earlyVars == <<cleanVars, dateVars, fixVars, dbVars, loadVars, etlVars,
               macroVars, colVars, combVars, expVars>>
otherThanFix == <<cleanVars, dateVars, dbVars, loadVars, etlVars, moreVars>>
otherThanLoad == <<cleanVars, dateVars, fixVars, etlVars, moreVars>>
otherThanEtl == <<cleanVars, dateVars, fixVars, loadVars, moreVars>>
vars == <<cv_in, cv_out, pd_in, pd_out, fd_i, fd_books, fd_log, macroalpha_db,
          id_map, ld_phase, ld_call, ld_base, ld_first, etl_pc, etl_log,
          etl_out, etl_conn, num_months, col_offset, date_map, pw_ticker_row,
          pw_field_row, pw_col, pw_ticker_cols, cm_files, cm_i, cm_rows,
          cm_csv, cm_state, ex_i, ex_log, success_count, ex_out,
          cat_name, category, pr_sheet, pr_row_idx, pr_conn, pr_state,
          viz_debt, viz_sector, viz_df>>

\* ------------------------------------------------------------------ bounds
\* longest string over CleanAlphabet handed to clean_value
MaxStrLen == 3
\* rows of column A of a workbook that the model keeps (Excel rows 1..)
MaxSheetRow == 90
\* data rows of company_master.csv
MaxCompanies == 3
\* data rows of every other source file
MaxRows == 2
\* columns of the price workbook in the column mapping (column 0 holds dates)
MaxWidth == 4
\* membership exports in the folder of combine_memb
MaxFiles == 2
\* month columns of a macro workbook (the export holds 240)
MaxMonths == 40

\* ----------------------------------------------------------------- strings
NaN == [k |-> "nan"]
None == [k |-> "none"]
StrCell(s) == [k |-> "str", s |-> s]

Pending == [k |-> "pending"]

\* the variables of a script that a specification does not run
IdleClean == cv_in = NaN /\ cv_out = Pending
IdleDate == pd_in = [kind |-> "missing"] /\ pd_out = Pending
IdleFix == fd_i = 0 /\ fd_books = <<>> /\ fd_log = <<>>
IdleDb == macroalpha_db = <<>> /\ id_map = <<>>
IdleLoad ==
    ld_phase = "idle" /\ ld_call = <<>> /\ ld_base = <<>> /\ ld_first = <<>>
IdleEtl == etl_pc = 0 /\ etl_log = <<>> /\ etl_out = <<>> /\ etl_conn = "none"
IdleMacro == num_months = 0 /\ col_offset = 0 /\ date_map = <<>>
IdleCols ==
    /\ pw_ticker_row = <<>> /\ pw_field_row = <<>>
    /\ pw_col = 0 /\ pw_ticker_cols = <<>>
IdleComb ==
    /\ cm_files = <<>> /\ cm_i = 0 /\ cm_rows = <<>>
    /\ cm_csv = <<>> /\ cm_state = "none"
IdleExp == ex_i = 0 /\ ex_log = <<>> /\ success_count = 0 /\ ex_out = <<>>
IdleCat == cat_name = <<>> /\ category = "none"
IdlePrices ==
    pr_sheet = <<>> /\ pr_row_idx = 0 /\ pr_conn = <<>> /\ pr_state = "none"
IdleViz == viz_debt = <<>> /\ viz_sector = "" /\ viz_df = Pending
IdleLate == IdleCat /\ IdlePrices /\ IdleViz
IdleMore == IdleMacro /\ IdleCols /\ IdleComb /\ IdleExp /\ IdleLate
IdleCore ==
    /\ IdleClean /\ IdleDate /\ IdleFix /\ IdleDb /\ IdleLoad /\ IdleEtl
    /\ IdleLate
IdleEarly ==
    /\ IdleClean /\ IdleDate /\ IdleFix /\ IdleDb /\ IdleLoad /\ IdleEtl
    /\ IdleMacro /\ IdleCols /\ IdleComb /\ IdleExp

DigitSeq == <<"0", "1", "2", "3", "4", "5", "6", "7", "8", "9">>
Digits == {DigitSeq[i] : i \in 1..10}
DigitVal(c) == (CHOOSE i \in 1..10 : DigitSeq[i] = c) - 1
DigitChar(n) == DigitSeq[n + 1]

IsSpace(c) == c = " "

RECURSIVE LStrip(_)
LStrip(s) == IF s # <<>> /\ IsSpace(Head(s)) THEN LStrip(Tail(s)) ELSE s

RECURSIVE RStrip(_)
RStrip(s) ==
    IF s # <<>> /\ IsSpace(s[Len(s)]) THEN RStrip(SubSeq(s, 1, Len(s) - 1)) ELSE s

\* str.strip()
Strip(s) == RStrip(LStrip(s))

\* str.replace(c, '')
RECURSIVE RemoveChar(_, _)
RemoveChar(s, c) ==
    IF s = <<>> THEN <<>>
    ELSE IF Head(s) = c THEN RemoveChar(Tail(s), c)
    ELSE <<Head(s)>> \o RemoveChar(Tail(s), c)

AllDigits(s) == \A i \in 1..Len(s) : s[i] \in Digits

RECURSIVE DigitsToNat(_)
DigitsToNat(s) ==
    IF s = <<>> THEN 0
    ELSE 10 * DigitsToNat(SubSeq(s, 1, Len(s) - 1)) + DigitVal(s[Len(s)])

\* ------------------------------------------------------------- clean_value
\* The literals of the list at etl_import.py:43.
NA_HASH == <<"#", "N", "/", "A">>
NA_DASHES == <<"-", "-">>
NA_REQUESTING ==
    <<"#", "N", "/", "A", " ", "R", "e", "q", "u", "e", "s", "t", "i", "n", "g",
      " ", "D", "a", "t", "a", ".", ".", ".">>
NA_PLAIN == <<"N", "/", "A">>
NAMarkers == {NA_HASH, NA_DASHES, NA_REQUESTING, NA_PLAIN, <<>>}

\* float(text): the part of Python's float grammar that the model's alphabet
\* can spell: blanks around it ignored, an optional sign, then digits with at
\* most one point and at least one digit, or "nan" in any case.
Signed(t) == Strip(t)
Unsigned(t) ==
    LET b == Signed(t) IN IF b # <<>> /\ Head(b) \in {"-", "+"} THEN Tail(b) ELSE b
PointAt(t) == {i \in 1..Len(t) : t[i] = "."}
IsDecimal(u) ==
    LET u2 == RemoveChar(u, ".")
    IN  /\ Cardinality(PointAt(u)) <= 1
        /\ u2 # <<>>
        /\ AllDigits(u2)
IsNanText(u) ==
    /\ Len(u) = 3
    /\ u[1] \in {"n", "N"} /\ u[2] \in {"a", "A"} /\ u[3] \in {"n", "N"}
IsFloatText(t) == IsDecimal(Unsigned(t)) \/ IsNanText(Unsigned(t))

RECURSIVE Normalise(_, _)
Normalise(mant, scale) ==
    IF scale > 0 /\ mant % 10 = 0 THEN Normalise(mant \div 10, scale - 1)
    ELSE <<mant, scale>>

\* The float a text denotes: mant / 10^scale, negated when neg.
FloatOf(t) ==
    LET u == Unsigned(t)
    IN  IF IsNanText(u) THEN [k |-> "float", isnan |-> TRUE, neg |-> FALSE,
                              mant |-> 0, scale |-> 0]
        ELSE LET p == PointAt(u)
                 frac == IF p = {} THEN 0 ELSE Len(u) - (CHOOSE i \in p : TRUE)
                 n == Normalise(DigitsToNat(RemoveChar(u, ".")), frac)
             IN  [k |-> "float", isnan |-> FALSE,
                  neg |-> (Signed(t) # <<>> /\ Head(Signed(t)) = "-" /\ n[1] # 0),
                  mant |-> n[1], scale |-> n[2]]

\* clean_value returning the text it tried to convert instead of val_str
CleanText_ReturnsReplaced(val_str) ==
    LET t == RemoveChar(val_str, ",")
    IN  IF IsFloatText(t) THEN FloatOf(t) ELSE StrCell(t)

\* What clean_value returns for a string that is no marker: the float it
\* spells once its commas are removed, and otherwise the stripped string.
CleanText(val_str) ==
    LET t == RemoveChar(val_str, ",")
    IN  IF IsFloatText(t) THEN FloatOf(t) ELSE StrCell(val_str)

\* The text str(val) of a cell that is not missing.
RECURSIVE NatToChars(_)
NatToChars(n) ==
    IF n < 10 THEN <<DigitChar(n)>>
    ELSE NatToChars(n \div 10) \o <<DigitChar(n % 10)>>

\* strftime without zero padding
Pad_Unpadded(n, width) == NatToChars(n)

Pad(n, width) ==
    LET c == NatToChars(n)
    IN  IF Len(c) >= width THEN c
        ELSE [i \in 1..(width - Len(c)) |-> "0"] \o c

IsoChars(y, m, d) == Pad(y, 4) \o <<"-">> \o Pad(m, 2) \o <<"-">> \o Pad(d, 2)

\* str(datetime) is 'YYYY-MM-DD 00:00:00'
StrOf(val) ==
    IF val.k = "dt"
    THEN IsoChars(val.y, val.m, val.d) \o
         <<" ", "0", "0", ":", "0", "0", ":", "0", "0">>
    ELSE val.s

CleanValue(val) ==
    IF val.k = "nan" THEN None
    ELSE LET val_str == Strip(StrOf(val))
         IN  IF val_str \in NAMarkers THEN None ELSE CleanText(val_str)

\* ---------------------------------------------------- parse_bloomberg_date
IsLeap(y) == (y % 4 = 0 /\ y % 100 # 0) \/ y % 400 = 0

DaysInMonth(y, m) ==
    IF m = 2 THEN (IF IsLeap(y) THEN 29 ELSE 28)
    ELSE IF m \in {4, 6, 9, 11} THEN 30 ELSE 31

\* datetime(y, m, d) does not raise ValueError
ValidDate(y, m, d) ==
    /\ y \in 1..9999
    /\ m \in 1..12
    /\ d \in 1..DaysInMonth(y, m)

\* str.split(sep) as strptime's regular expression sees the text: the
\* directives match digits only, so the literal separators cut the fields.
RECURSIVE Split(_, _)
Split(s, sep) ==
    LET at == {i \in 1..Len(s) : s[i] = sep}
    IN  IF at = {} THEN <<s>>
        ELSE LET i == CHOOSE j \in at : \A k \in at : j <= k
             IN  <<SubSeq(s, 1, i - 1)>> \o Split(SubSeq(s, i + 1, Len(s)), sep)

\* %Y is \d\d\d\d
MatchY(tok) == Len(tok) = 4 /\ AllDigits(tok)

\* %m is 1[0-2]|0[1-9]|[1-9]
MatchM(tok) == Len(tok) \in 1..2 /\ AllDigits(tok) /\ DigitsToNat(tok) \in 1..12

\* %d is 3[01]|[12]\d|0[1-9]|[1-9]| [1-9]
MatchD(tok) ==
    \/ Len(tok) \in 1..2 /\ AllDigits(tok) /\ DigitsToNat(tok) \in 1..31
    \/ Len(tok) = 2 /\ tok[1] = " " /\ tok[2] \in Digits /\ tok[2] # "0"

MatchField(dir, tok) ==
    IF dir = "Y" THEN MatchY(tok)
    ELSE IF dir = "m" THEN MatchM(tok)
    ELSE MatchD(tok)

FieldVal(tok) == DigitsToNat(RemoveChar(tok, " "))

\* a list that holds the later format of each pair in front of the earlier
Formats_LaterFirst ==
    << [sep |-> "-", order |-> <<"Y", "m", "d">>],
       [sep |-> "/", order |-> <<"d", "m", "Y">>],
       [sep |-> "/", order |-> <<"m", "d", "Y">>],
       [sep |-> "/", order |-> <<"Y", "m", "d">>],
       [sep |-> "-", order |-> <<"m", "d", "Y">>],
       [sep |-> "-", order |-> <<"d", "m", "Y">>] >>

\* The list `formats` of etl_import.py:62-65, in its order.
Formats ==
    << [sep |-> "-", order |-> <<"Y", "m", "d">>],
       [sep |-> "/", order |-> <<"m", "d", "Y">>],
       [sep |-> "/", order |-> <<"d", "m", "Y">>],
       [sep |-> "/", order |-> <<"Y", "m", "d">>],
       [sep |-> "-", order |-> <<"d", "m", "Y">>],
       [sep |-> "-", order |-> <<"m", "d", "Y">>] >>

\* datetime.strptime(date_str, fmt).strftime('%Y-%m-%d'), None standing for
\* the ValueError that makes the loop go on to the next format.
TryFormat(date_str, fmt) ==
    LET toks == Split(date_str, fmt.sep)
        pos(dir) == CHOOSE i \in 1..3 : fmt.order[i] = dir
    IN  IF Len(toks) # 3 THEN None
        ELSE IF ~(\A i \in 1..3 : MatchField(fmt.order[i], toks[i])) THEN None
        ELSE LET y == FieldVal(toks[pos("Y")])
                 m == FieldVal(toks[pos("m")])
                 d == FieldVal(toks[pos("d")])
             IN  IF ValidDate(y, m, d) THEN StrCell(IsoChars(y, m, d)) ELSE None

RECURSIVE TryFormats(_, _)
TryFormats(date_str, i) ==
    IF i > Len(Formats) THEN None
    ELSE LET r == TryFormat(date_str, Formats[i])
         IN  IF r # None THEN r ELSE TryFormats(date_str, i + 1)

ParseBloombergDate(date_val) ==
    IF date_val.k = "nan" THEN None
    ELSE IF date_val.k = "dt"
    THEN StrCell(IsoChars(date_val.y, date_val.m, date_val.d))
    ELSE TryFormats(Strip(StrOf(date_val)), 1)

\* ---------------------------------------------------------------- fix_dates
\* The list `files` of fix_dates.py:80-85.
FixFiles ==
    << [filename |-> "financials_annual.xlsx", period_type |-> "ANNUAL"],
       [filename |-> "financials_quarterly.xlsx", period_type |-> "QUARTERLY"],
       [filename |-> "financials_fiscal_annual.xlsx", period_type |-> "ANNUAL"],
       [filename |-> "financials_fiscal_quarterly.xlsx",
        period_type |-> "QUARTERLY"] >>

DateCell(y, m, d) == [k |-> "dt", y |-> y, m |-> m, d |-> d]

\* The list `quarters` of fix_dates.py:43.
Quarters == << <<3, 31>>, <<6, 30>>, <<9, 30>>, <<12, 31>> >>

\* fix_dates.py:36-40: the rows of range(7, 28) the loop reaches before its
\* break, each set to 31 December of its year
AnnualYear(row) == 2005 + (row - 7)
\* a loop without the break at year > 2024
AnnualReached_NoBreak(row) == row \in 7..27
AnnualReached(row) ==
    row \in 7..27 /\ \A r \in 7..row : ~(AnnualYear(r) > 2024)
FillAnnual(ws) ==
    [row \in DOMAIN ws |->
        IF AnnualReached(row) THEN DateCell(AnnualYear(row), 12, 31)
        ELSE ws[row]]

\* fix_dates.py:45-52: the rows of range(7, 88) the loop reaches before its
\* break, each set to the end of its quarter
\* a year that moves on with every row
QuarterYear_PerRow(row) == 2005 + (row - 7)
QuarterYear(row) == 2005 + ((row - 7) \div 4)
QuarterReached(row) ==
    row \in 7..87 /\ \A r \in 7..row : ~(QuarterYear(r) > 2024)
FillQuarterly(ws) ==
    [row \in DOMAIN ws |->
        IF QuarterReached(row)
        THEN LET q == (row - 7) % 4
             IN  DateCell(QuarterYear(row), Quarters[q + 1][1], Quarters[q + 1][2])
        ELSE ws[row]]

\* Column A of the active sheet after the assignments of fix_date_column.
FixDateColumn(ws, period_type) ==
    IF period_type = "ANNUAL" THEN FillAnnual(ws)
    ELSE IF period_type = "QUARTERLY" THEN FillQuarterly(ws)
    ELSE ws

\* A workbook on disk: absent, or present (writable or not) with a column A.
HeaderCell == StrCell(<<"D", "a", "t", "e", "s">>)
JunkCell == StrCell(<<"x">>)
SheetRows == 1..MaxSheetRow
ColumnAs ==
    { [r \in SheetRows |-> IF r = 6 THEN HeaderCell ELSE NaN],
      [r \in SheetRows |-> IF r = 6 THEN HeaderCell ELSE JunkCell],
      [r \in SheetRows |-> IF r = 6 THEN HeaderCell
                           ELSE IF r % 2 = 1 THEN DateCell(2005, 12, 31)
                           ELSE NaN] }
Workbooks ==
    {[state |-> "missing"]}
    \cup [state : {"ok", "readonly"}, colA : ColumnAs]

\* load_workbook(filename) raises, or wb.save(filename) does
Raises(book) == book.state \in {"missing", "readonly"}

\* the handler leaving the loop instead of going on with the next file
AfterException_Abort(i) == Len(FixFiles) + 1

\* where the loop of fix_dates.py:87-91 goes on after an exception
AfterException(i) == i + 1

StartFix ==
    /\ fd_i = 1
    /\ fd_books \in [1..Len(FixFiles) -> Workbooks]
    /\ fd_log = <<>>

\* One turn of the loop: fix_date_column returns.
FixOneWorkbook ==
    /\ fd_i <= Len(FixFiles)
    /\ ~Raises(fd_books[fd_i])
    /\ fd_books' = [fd_books EXCEPT
           ![fd_i].colA = FixDateColumn(@, FixFiles[fd_i].period_type)]
    /\ fd_log' = fd_log \o << <<"Processing", fd_i>>, <<"Saved", fd_i>> >>
    /\ fd_i' = fd_i + 1
    /\ UNCHANGED otherThanFix

\* One turn of the loop: fix_date_column raises and the handler reports it.
FixOneWorkbookFails ==
    /\ fd_i <= Len(FixFiles)
    /\ Raises(fd_books[fd_i])
    /\ fd_log' = fd_log \o << <<"Processing", fd_i>>, <<"Error", fd_i>> >>
    /\ fd_i' = AfterException(fd_i)
    /\ UNCHANGED <<fd_books, otherThanFix>>

\* fix_dates.py:93-95
FixFinish ==
    /\ fd_i = Len(FixFiles) + 1
    /\ fd_log' = Append(fd_log, <<"All files processed", 0>>)
    /\ fd_i' = fd_i + 1
    /\ UNCHANGED <<fd_books, otherThanFix>>

\* ------------------------------------------------------------- the database
\* A table is the sequence of its rows in insertion order.  schema.sql is not
\* among the sources: the unique key of each table and the numbering of
\* company_id are taken from the data model of the specification.
Tables ==
    {"companies", "index_membership", "prices_weekly", "financials",
     "macro_indicators", "interest_rates"}

\* the database after create_database: every table exists and is empty
EmptyDb == [tbl \in Tables |-> <<>>]

\* the columns of the unique constraint of a table
KeyOf(tbl, r) ==
    CASE tbl = "companies" -> <<r.ticker>>
      [] tbl = "index_membership" -> <<r.index_id, r.company_id, r.as_of_date>>
      [] tbl = "prices_weekly" -> <<r.company_id, r.price_date>>
      [] tbl = "financials" -> <<r.company_id, r.period_end_date, r.period_type>>
      [] tbl = "macro_indicators" ->
             <<r.country_id, r.indicator_date, r.indicator_name>>
      [] tbl = "interest_rates" -> <<r.country_id, r.rate_date, r.rate_type>>

\* company_id INTEGER PRIMARY KEY: one more than the largest id in the table
NextCompanyId(rows) ==
    IF rows = <<>> THEN 1
    ELSE 1 + (CHOOSE n \in {rows[i].company_id : i \in 1..Len(rows)} :
                 \A i \in 1..Len(rows) : rows[i].company_id <= n)

\* the row as the table stores it
Stored(rows, tbl, r) ==
    IF tbl = "companies" THEN [r EXCEPT !.company_id = NextCompanyId(rows)] ELSE r

Conflicts(rows, tbl, r) ==
    \E i \in 1..Len(rows) : KeyOf(tbl, rows[i]) = KeyOf(tbl, r)

\* an INSERT that never meets a conflict
InsertOrIgnore_Always(rows, tbl, r) == Append(rows, Stored(rows, tbl, r))

\* INSERT OR IGNORE INTO tbl
InsertOrIgnore(rows, tbl, r) ==
    IF Conflicts(rows, tbl, r) THEN rows ELSE Append(rows, Stored(rows, tbl, r))

\* an INSERT that keeps the row it should replace
InsertOrReplace_KeepsOld(rows, tbl, r) == Append(rows, Stored(rows, tbl, r))

\* an upsert that keeps the old value of a column whose new value is null
InsertOrReplace_Merges(rows, tbl, r) ==
    LET kept == SelectSeq(rows, LAMBDA x : KeyOf(tbl, x) # KeyOf(tbl, r))
        old == SelectSeq(rows, LAMBDA x : KeyOf(tbl, x) = KeyOf(tbl, r))
    IN  Append(kept,
               IF old = <<>> THEN Stored(kept, tbl, r)
               ELSE [f \in DOMAIN r |->
                        IF /\ tbl = "financials"
                           /\ f \notin {"company_id", "period_end_date",
                                         "period_type", "src_ticker"}
                           /\ r[f] = None
                        THEN old[1][f] ELSE r[f]])

\* a replace that takes no account of period_type
InsertOrReplace_AnyType(rows, tbl, r) ==
    LET kept == SelectSeq(rows, LAMBDA x :
                    IF tbl = "financials"
                    THEN <<x.company_id, x.period_end_date>>
                            # <<r.company_id, r.period_end_date>>
                    ELSE KeyOf(tbl, x) # KeyOf(tbl, r))
    IN  Append(kept, Stored(kept, tbl, r))

\* INSERT OR REPLACE INTO tbl
InsertOrReplace(rows, tbl, r) ==
    LET kept == SelectSeq(rows, LAMBDA x : KeyOf(tbl, x) # KeyOf(tbl, r))
    IN  Append(kept, Stored(kept, tbl, r))

\* SELECT company_id FROM companies WHERE ticker = ?, fetchone(); 0 for no row
SelectCompanyId(companies, ticker) ==
    LET hits == {i \in 1..Len(companies) : companies[i].ticker = ticker}
    IN  IF hits = {} THEN 0
        ELSE companies[CHOOSE i \in hits : \A j \in hits : i <= j].company_id

\* ticker_to_id.get(ticker); 0 for None
MapGet(ticker_to_id, ticker) ==
    IF ticker \in DOMAIN ticker_to_id THEN ticker_to_id[ticker] ELSE 0

\* str(val) of any cell
StrAny(val) == IF val.k = "nan" THEN <<"n", "a", "n">> ELSE StrOf(val)

\* a failure that undoes what the earlier imports committed
Failed_RollsBack(committed, ticker_to_id) ==
    [db |-> EmptyDb, map |-> ticker_to_id, err |-> TRUE, count |-> 0]

\* what a failed import leaves: the exception reaches main, whose finally
\* closes the connection, and the rows not yet committed are lost
Failed(committed, ticker_to_id) ==
    [db |-> committed, map |-> ticker_to_id, err |-> TRUE, count |-> 0]

Done(db, ticker_to_id, count) ==
    [db |-> db, map |-> ticker_to_id, err |-> FALSE, count |-> count]

\* the final conn.commit() of an import whose loop ended in st: the rows of
\* table tbl and the entries of the caller's dict are kept
Commit(db, tbl, st) ==
    Done([db EXCEPT ![tbl] = st.table], st.map, st.count)

\* --------------------------------------------------------- import_companies
\* etl_import.py:100-102: the ticker of a row, <<>> for a row that is skipped
CompanyTicker(row) ==
    LET ticker == IF row.ticker.k = "nan" THEN <<>> ELSE Strip(StrOf(row.ticker))
    IN  IF ticker = <<>> \/ ticker = NA_HASH THEN <<>> ELSE ticker

\* etl_import.py:98-115: the list `records`
RECURSIVE CompanyRecords(_)
CompanyRecords(rows) ==
    IF rows = <<>> THEN <<>>
    ELSE LET rest == CompanyRecords(SubSeq(rows, 1, Len(rows) - 1))
             row == rows[Len(rows)]
         IN  IF CompanyTicker(row) = <<>> THEN rest
             ELSE Append(rest, [company_id |-> 0,
                                ticker |-> CompanyTicker(row),
                                company_name |-> row.name])

\* etl_import.py:118-129
RECURSIVE InsertCompanies(_, _)
InsertCompanies(table, records) ==
    IF records = <<>> THEN table
    ELSE InsertCompanies(InsertOrIgnore(table, "companies", Head(records)),
                         Tail(records))

\* etl_import.py:134: {r['ticker']: i+1 for i, r in enumerate(records)}
EnumerateIds(records) ==
    [t \in {records[i].ticker : i \in 1..Len(records)} |->
        CHOOSE n \in 1..Len(records) :
            /\ records[n].ticker = t
            /\ \A i \in 1..Len(records) : records[i].ticker = t => i <= n]

ImportCompanies(db, file) ==
    IF file.state = "missing" THEN Failed(db, <<>>)
    ELSE LET records == CompanyRecords(file.rows)
         IN  Done([db EXCEPT !.companies = InsertCompanies(@, records)],
                  EnumerateIds(records), Len(records))

\* --------------------------------------------------- import_index_membership
\* The state of the loop of etl_import.py:150-180 is [table, map, count, err].
\* a date that cannot be parsed raises instead of skipping the row
MembershipInsert_Raises(st, cols, row, ticker, company_id, as_of_date) ==
    IF as_of_date = None \/ ~({"Weight", "Shares", "Price"} \subseteq cols)
    THEN [st EXCEPT !.err = TRUE]
    ELSE [st EXCEPT
             !.table = InsertOrIgnore(@, "index_membership",
                 [index_id |-> row.index_id,
                  company_id |-> company_id,
                  as_of_date |-> as_of_date.s,
                  weight |-> CleanValue(row.Weight),
                  shares_outstanding |-> CleanValue(row.Shares),
                  price |-> CleanValue(row.Price),
                  src_ticker |-> ticker]),
             !.count = @ + 1]

\* etl_import.py:166-180: a row whose company is company_id
MembershipInsert(st, cols, row, ticker, company_id, as_of_date) ==
    IF as_of_date = None THEN st
    ELSE IF ~({"Weight", "Shares", "Price"} \subseteq cols)
    THEN [st EXCEPT !.err = TRUE]
    ELSE [st EXCEPT
             !.table = InsertOrIgnore(@, "index_membership",
                 [index_id |-> row.index_id,
                  company_id |-> company_id,
                  as_of_date |-> as_of_date.s,
                  weight |-> CleanValue(row.Weight),
                  shares_outstanding |-> CleanValue(row.Shares),
                  price |-> CleanValue(row.Price),
                  src_ticker |-> ticker]),
             !.count = @ + 1]

\* etl_import.py:151-163: the company of a row
MembershipCompany(companies, ticker_to_id, ticker) ==
    IF MapGet(ticker_to_id, ticker) # 0 THEN MapGet(ticker_to_id, ticker)
    ELSE SelectCompanyId(companies, ticker)

\* etl_import.py:150-180: one row of the file
MembershipRow(st, companies, ticker_to_id, cols, row) ==
    IF st.err THEN st
    ELSE IF ~({"Ticker", "index_id"} \subseteq cols) THEN [st EXCEPT !.err = TRUE]
    ELSE IF MembershipCompany(companies, ticker_to_id, Strip(StrAny(row.Ticker))) = 0
    THEN st
    ELSE IF "as_of_date" \notin cols THEN [st EXCEPT !.err = TRUE]
    ELSE MembershipInsert(st, cols, row, Strip(StrAny(row.Ticker)),
             MembershipCompany(companies, ticker_to_id, Strip(StrAny(row.Ticker))),
             ParseBloombergDate(row.as_of_date))

RECURSIVE MembershipRows(_, _, _, _, _)
MembershipRows(st, companies, ticker_to_id, cols, rows) ==
    IF rows = <<>> THEN st
    ELSE MembershipRows(
             MembershipRow(st, companies, ticker_to_id, cols, Head(rows)),
             companies, ticker_to_id, cols, Tail(rows))

\* an exception in the loop leaves the function before its conn.commit()
MembershipEnd(db, st) ==
    IF st.err THEN Failed(db, st.map) ELSE Commit(db, "index_membership", st)

ImportIndexMembership(db, ticker_to_id, file) ==
    IF file.state = "missing" THEN Failed(db, ticker_to_id)
    ELSE MembershipEnd(db,
             MembershipRows([table |-> db.index_membership, map |-> ticker_to_id,
                             count |-> 0, err |-> FALSE],
                            db.companies, ticker_to_id, file.cols, file.rows))

\* ------------------------------------------------- wide spreadsheet exports
\* A data frame read with header=None is the sequence of its rows, each the
\* sequence of its cells; pandas and Python count both from 0.
Cell(df, r, c) == df[r + 1][c + 1]
Iloc(df, r) == df[r + 1]
Width(df) == IF df = <<>> THEN 0 ELSE Len(df[1])

\* `sub in s` for two strings
Contains(s, sub) ==
    \E i \in 0..(Len(s) - Len(sub)) : SubSeq(s, i + 1, i + Len(sub)) = sub

\* str(cell).strip() if pd.notna(cell) else dflt
StripOr(cell, dflt) == IF cell.k = "nan" THEN dflt ELSE Strip(StrOf(cell))

\* d[key] = value for a dict kept as the sequence of its items: a key already
\* there keeps its place and takes the new value
DictSet(d, key, value) ==
    IF \E i \in 1..Len(d) : d[i].key = key
    THEN [i \in 1..Len(d) |-> IF d[i].key = key THEN [d[i] EXCEPT !.value = value]
                              ELSE d[i]]
    ELSE Append(d, [key |-> key, value |-> value])

\* ticker_to_id[ticker] = company_id
MapSet(ticker_to_id, ticker, company_id) ==
    [t \in DOMAIN ticker_to_id \cup {ticker} |->
        IF t = ticker THEN company_id ELSE ticker_to_id[t]]

\* etl_import.py:240-248 and 343-351: the company of a ticker and the map
\* after the lookup; id 0 when the ticker block is skipped
Lookup(companies, ticker_to_id, ticker) ==
    LET mapped == MapGet(ticker_to_id, ticker)
        found == SelectCompanyId(companies, ticker)
    IN  IF mapped # 0 THEN [id |-> mapped, map |-> ticker_to_id]
        ELSE IF found # 0
        THEN [id |-> found, map |-> MapSet(ticker_to_id, ticker, found)]
        ELSE [id |-> 0, map |-> ticker_to_id]

\* ----------------------------------------------------- import_prices_weekly
W_PRICE == <<"P", "r", "i", "c", "e">>
W_RETURN == <<"R", "e", "t", "u", "r", "n">>
W_NAN == <<"n", "a", "n">>

\* a mapping without the fallback columns: 0 stands for no column
PriceColumns_NoFallback(field_row, col) ==
    LET field1 == IF col < Len(field_row) THEN StripOr(Iloc(field_row, col), <<>>)
                  ELSE <<>>
        field2 == IF col + 1 < Len(field_row)
                  THEN StripOr(Iloc(field_row, col + 1), <<>>) ELSE <<>>
    IN  [price_col |-> IF Contains(field1, W_PRICE) THEN col
                       ELSE IF Contains(field2, W_PRICE) THEN col + 1 ELSE 0,
         return_col |-> IF Contains(field2, W_RETURN) THEN col + 1
                        ELSE IF Contains(field1, W_RETURN) THEN col ELSE 0]

\* etl_import.py:216-222: the columns of the block that starts at col
PriceColumns(field_row, col) ==
    LET field1 == IF col < Len(field_row) THEN StripOr(Iloc(field_row, col), <<>>)
                  ELSE <<>>
        field2 == IF col + 1 < Len(field_row)
                  THEN StripOr(Iloc(field_row, col + 1), <<>>) ELSE <<>>
    IN  [price_col |-> IF Contains(field1, W_PRICE) THEN col
                       ELSE IF Contains(field2, W_PRICE) THEN col + 1 ELSE col,
         return_col |-> IF Contains(field2, W_RETURN) THEN col + 1
                        ELSE IF Contains(field1, W_RETURN) THEN col ELSE col + 1]

\* etl_import.py:213-222: one turn of the while loop, for the block at col
\* whose ticker cell reads ticker (<<>> for a missing cell)
TickerColsAt(d, ticker, field_row, col) ==
    IF ticker # <<>> /\ ticker \notin {W_NAN, NA_REQUESTING}
    THEN DictSet(d, ticker, PriceColumns(field_row, col))
    ELSE d

\* etl_import.py:211-224: the dict ticker_cols, from column col on
RECURSIVE TickerCols(_, _, _, _)
TickerCols(d, ticker_row, field_row, col) ==
    IF ~(col < Len(ticker_row)) THEN d
    ELSE TickerCols(TickerColsAt(d, StripOr(Iloc(ticker_row, col), <<>>),
                                 field_row, col),
                    ticker_row, field_row, col + 2)

\* etl_import.py:239-265: one ticker of one data row;
\* st is [table, map, count]
\* etl_import.py:256-257: clean_value of the cell in column col, if there is one
ColumnValue(df, row_idx, col) ==
    IF col # 0 /\ col < Width(df) THEN CleanValue(Cell(df, row_idx, col)) ELSE None

\* an insert without the test of close_price
PriceInsert_AnyPrice(st, look, price_date, close_price, total_return, ticker) ==
    IF look.id = 0 THEN st
    ELSE [st EXCEPT
             !.map = look.map,
             !.table = InsertOrIgnore(@, "prices_weekly",
                 [company_id |-> look.id,
                  price_date |-> price_date,
                  close_price |-> close_price,
                  total_return |-> total_return,
                  src_ticker |-> ticker]),
             !.count = @ + 1]

\* etl_import.py:259-265
PriceInsert(st, look, price_date, close_price, total_return, ticker) ==
    IF look.id = 0 THEN st
    ELSE IF close_price = None THEN [st EXCEPT !.map = look.map]
    ELSE [st EXCEPT
             !.map = look.map,
             !.table = InsertOrIgnore(@, "prices_weekly",
                 [company_id |-> look.id,
                  price_date |-> price_date,
                  close_price |-> close_price,
                  total_return |-> total_return,
                  src_ticker |-> ticker]),
             !.count = @ + 1]

PriceCell(st, companies, df, row_idx, price_date, item) ==
    PriceInsert(st, Lookup(companies, st.map, item.key), price_date,
                ColumnValue(df, row_idx, item.value.price_col),
                ColumnValue(df, row_idx, item.value.return_col), item.key)

RECURSIVE PriceCells(_, _, _, _, _, _)
PriceCells(st, companies, df, row_idx, price_date, items) ==
    IF items = <<>> THEN st
    ELSE PriceCells(PriceCell(st, companies, df, row_idx, price_date, Head(items)),
                    companies, df, row_idx, price_date, Tail(items))

\* etl_import.py:234-265: the data row row_idx, whose date parsed to price_date
PriceRow(st, companies, df, ticker_cols, row_idx, price_date) ==
    IF price_date = None THEN st
    ELSE PriceCells(st, companies, df, row_idx, price_date.s, ticker_cols)

\* etl_import.py:233-269: the data rows from row_idx on
RECURSIVE PriceRows(_, _, _, _, _)
PriceRows(st, companies, df, ticker_cols, row_idx) ==
    IF ~(row_idx < Len(df)) THEN st
    ELSE PriceRows(PriceRow(st, companies, df, ticker_cols, row_idx,
                            ParseBloombergDate(Cell(df, row_idx, 0))),
                   companies, df, ticker_cols, row_idx + 1)

ImportPricesWeekly(db, ticker_to_id, file) ==
    IF file.state = "missing" \/ Len(file.df) < 5 THEN Failed(db, ticker_to_id)
    ELSE Commit(db, "prices_weekly",
             PriceRows([table |-> db.prices_weekly, map |-> ticker_to_id,
                        count |-> 0],
                       db.companies, file.df,
                       TickerCols(<<>>, Iloc(file.df, 3), Iloc(file.df, 4), 1), 6))

\* --------------------------------------------------------- import_financials
\* The dict field_map of etl_import.py:298-306, "" for a label not in it.
L_SALES_REV_TURN == <<"S", "A", "L", "E", "S", "_", "R", "E", "V", "_", "T", "U", "R", "N">>
L_EBITDA == <<"E", "B", "I", "T", "D", "A">>
L_IS_INT_EXPENSE == <<"I", "S", "_", "I", "N", "T", "_", "E", "X", "P", "E", "N", "S", "E">>
L_CF_FREE_CASH_FLOW == <<"C", "F", "_", "F", "R", "E", "E", "_", "C", "A", "S", "H", "_", "F", "L", "O", "W">>
L_GROSS_PROFIT == <<"G", "R", "O", "S", "S", "_", "P", "R", "O", "F", "I", "T">>
L_SHORT_AND_LONG_TERM_DEBT == <<"S", "H", "O", "R", "T", "_", "A", "N", "D", "_", "L", "O", "N", "G", "_", "T", "E", "R", "M", "_", "D", "E", "B", "T">>
L_ARD_COST_OF_GOODS_SOLD == <<"A", "R", "D", "_", "C", "O", "S", "T", "_", "O", "F", "_", "G", "O", "O", "D", "S", "_", "S", "O", "L", "D">>

FieldMap(field) ==
    CASE field = L_SALES_REV_TURN -> "revenue"
      [] field = L_EBITDA -> "ebitda"
      [] field = L_IS_INT_EXPENSE -> "interest_expense"
      [] field = L_CF_FREE_CASH_FLOW -> "free_cash_flow"
      [] field = L_GROSS_PROFIT -> "gross_profit"
      [] field = L_SHORT_AND_LONG_TERM_DEBT -> "total_debt"
      [] field = L_ARD_COST_OF_GOODS_SOLD -> "cost_of_goods_sold"
      [] OTHER -> ""

\* etl_import.py:309
fields_per_ticker == 7

\* etl_import.py:320-325: the dict of one ticker, from field f_idx on
RECURSIVE FieldCols(_, _, _, _)
FieldCols(d, field_row, base_col, f_idx) ==
    IF f_idx >= fields_per_ticker THEN d
    ELSE LET col == base_col + f_idx
             field == IF col < Len(field_row)
                      THEN StripOr(Iloc(field_row, col), <<>>) ELSE <<>>
             d2 == IF field # <<>> /\ FieldMap(field) # ""
                   THEN DictSet(d, FieldMap(field), col) ELSE d
         IN  FieldCols(d2, field_row, base_col, f_idx + 1)

\* etl_import.py:314-325: the dict ticker_fields, from ticker t_idx on
RECURSIVE TickerFields(_, _, _, _)
TickerFields(d, ticker_row, field_row, t_idx) ==
    IF t_idx >= (Len(ticker_row) - 1) \div fields_per_ticker THEN d
    ELSE LET base_col == 1 + t_idx * fields_per_ticker
             ticker == StripOr(Iloc(ticker_row, base_col), <<>>)
             d2 == IF ticker # <<>> /\ ticker # NA_REQUESTING
                   THEN DictSet(d, ticker, FieldCols(<<>>, field_row, base_col, 0))
                   ELSE d
         IN  TickerFields(d2, ticker_row, field_row, t_idx + 1)

\* values.get(field) for the dict `values` of etl_import.py:354
ValueOf(df, row_idx, field_cols, field) ==
    LET hits == {i \in 1..Len(field_cols) : field_cols[i].key = field}
    IN  IF hits = {} THEN None
        ELSE CleanValue(Cell(df, row_idx, field_cols[CHOOSE i \in hits : TRUE].value))

\* the columns of the table financials that field_map names
FieldNames ==
    {"revenue", "ebitda", "interest_expense", "free_cash_flow", "gross_profit",
     "total_debt", "cost_of_goods_sold"}

\* an insert without the test `all(v is None ...)`
FinancialInsert_AnyValues(st, look, period_end_date, period_type, fields, v, ticker) ==
    IF look.id = 0 THEN st
    ELSE [st EXCEPT
             !.map = look.map,
             !.table = InsertOrReplace(@, "financials",
                 [company_id |-> look.id,
                  period_end_date |-> period_end_date,
                  period_type |-> period_type,
                  revenue |-> v["revenue"],
                  ebitda |-> v["ebitda"],
                  interest_expense |-> v["interest_expense"],
                  free_cash_flow |-> v["free_cash_flow"],
                  gross_profit |-> v["gross_profit"],
                  total_debt |-> v["total_debt"],
                  cost_of_goods_sold |-> v["cost_of_goods_sold"],
                  currency |-> None,
                  src_ticker |-> ticker]),
             !.count = @ + 1]

\* etl_import.py:357-373: v is values.get
FinancialInsert(st, look, period_end_date, period_type, fields, v, ticker) ==
    IF look.id = 0 THEN st
    ELSE IF \A i \in 1..Len(fields) : v[fields[i].key] = None
    THEN [st EXCEPT !.map = look.map]
    ELSE [st EXCEPT
             !.map = look.map,
             !.table = InsertOrReplace(@, "financials",
                 [company_id |-> look.id,
                  period_end_date |-> period_end_date,
                  period_type |-> period_type,
                  revenue |-> v["revenue"],
                  ebitda |-> v["ebitda"],
                  interest_expense |-> v["interest_expense"],
                  free_cash_flow |-> v["free_cash_flow"],
                  gross_profit |-> v["gross_profit"],
                  total_debt |-> v["total_debt"],
                  cost_of_goods_sold |-> v["cost_of_goods_sold"],
                  currency |-> None,
                  src_ticker |-> ticker]),
             !.count = @ + 1]

\* etl_import.py:342-373: one ticker of one data row
FinancialCell(st, companies, df, row_idx, period_end_date, period_type, item) ==
    FinancialInsert(st, Lookup(companies, st.map, item.key), period_end_date,
                    period_type, item.value,
                    [field \in FieldNames |->
                        ValueOf(df, row_idx, item.value, field)],
                    item.key)

RECURSIVE FinancialCells(_, _, _, _, _, _, _)
FinancialCells(st, companies, df, row_idx, period_end_date, period_type, items) ==
    IF items = <<>> THEN st
    ELSE FinancialCells(
             FinancialCell(st, companies, df, row_idx, period_end_date,
                           period_type, Head(items)),
             companies, df, row_idx, period_end_date, period_type, Tail(items))

\* etl_import.py:335-373: the data row row_idx, whose date parsed to
\* period_end_date
FinancialRow(st, companies, df, ticker_fields, period_type, row_idx, period_end_date) ==
    IF period_end_date = None THEN st
    ELSE FinancialCells(st, companies, df, row_idx, period_end_date.s,
                        period_type, ticker_fields)

\* etl_import.py:334-373: the data rows from row_idx on
RECURSIVE FinancialRows(_, _, _, _, _, _)
FinancialRows(st, companies, df, ticker_fields, period_type, row_idx) ==
    IF ~(row_idx < Len(df)) THEN st
    ELSE FinancialRows(
             FinancialRow(st, companies, df, ticker_fields, period_type, row_idx,
                          ParseBloombergDate(Cell(df, row_idx, 0))),
             companies, df, ticker_fields, period_type, row_idx + 1)

ImportFinancials(db, ticker_to_id, file, period_type) ==
    IF file.state = "missing" \/ Len(file.df) < 6 THEN Failed(db, ticker_to_id)
    ELSE Commit(db, "financials",
             FinancialRows([table |-> db.financials, map |-> ticker_to_id,
                            count |-> 0],
                           db.companies, file.df,
                           TickerFields(<<>>, Iloc(file.df, 3), Iloc(file.df, 5), 0),
                           period_type, 6))

\* -------------------------------------------------------------- import_macro
UpperCase == <<"A", "B", "C", "D", "E", "F", "G", "H", "I", "J", "K", "L", "M", "N", "O", "P", "Q", "R", "S", "T", "U", "V", "W", "X", "Y", "Z">>
LowerCase == <<"a", "b", "c", "d", "e", "f", "g", "h", "i", "j", "k", "l", "m", "n", "o", "p", "q", "r", "s", "t", "u", "v", "w", "x", "y", "z">>

\* str.lower()
LowerChar(c) ==
    IF \E i \in 1..26 : UpperCase[i] = c
    THEN LowerCase[CHOOSE i \in 1..26 : UpperCase[i] = c] ELSE c
Lower(s) == [i \in 1..Len(s) |-> LowerChar(s[i])]

\* a calendar that never leaves 2024
MacroDate_SameYear(k) ==
    NatToChars(2024) \o <<"-">> \o Pad(12 - (k % 12), 2) \o <<"-", "0", "1">>

\* etl_import.py:401-411: date_map[2 + k], k the value of col_offset
MacroDate(k) ==
    LET year == 2024 - (k \div 12)
        month == 12 - (k % 12)
        y2 == IF month <= 0 THEN year - 1 ELSE year
        m2 == IF month <= 0 THEN month + 12 ELSE month
    IN  NatToChars(y2) \o <<"-">> \o Pad(m2, 2) \o <<"-", "0", "1">>

\* a chain that looks for the words of Rates before those of Employment
Category_RatesFirst(indicator_name) ==
    LET name_lower == Lower(indicator_name)
        has(w) == Contains(name_lower, w)
    IN  IF has(<<"g", "d", "p">>) THEN "GDP"
        ELSE IF has(<<"c", "p", "i">>) \/ has(<<"p", "r", "i", "c", "e">>) \/ has(<<"i", "n", "f", "l", "a", "t", "i", "o", "n">>) THEN "CPI"
        ELSE IF has(<<"r", "a", "t", "e">>) \/ has(<<"y", "i", "e", "l", "d">>) THEN "Rates"
        ELSE IF has(<<"e", "m", "p", "l", "o", "y">>) THEN "Employment"
        ELSE IF has(<<"h", "o", "u", "s", "i", "n", "g">>) \/ has(<<"c", "o", "n", "s", "t", "r", "u", "c", "t", "i", "o", "n">>) THEN "Housing"
        ELSE IF has(<<"t", "r", "a", "d", "e">>) \/ has(<<"e", "x", "p", "o", "r", "t">>) \/ has(<<"i", "m", "p", "o", "r", "t">>) THEN "Trade"
        ELSE "Other"

\* etl_import.py:425-440
Category(indicator_name) ==
    LET name_lower == Lower(indicator_name)
        has(w) == Contains(name_lower, w)
    IN  IF has(<<"g", "d", "p">>) THEN "GDP"
        ELSE IF has(<<"c", "p", "i">>) \/ has(<<"p", "r", "i", "c", "e">>) \/ has(<<"i", "n", "f", "l", "a", "t", "i", "o", "n">>) THEN "CPI"
        ELSE IF has(<<"u", "n", "e", "m", "p", "l", "o", "y">>) \/ has(<<"e", "m", "p", "l", "o", "y">>) THEN "Employment"
        ELSE IF has(<<"h", "o", "u", "s", "i", "n", "g">>) \/ has(<<"c", "o", "n", "s", "t", "r", "u", "c", "t", "i", "o", "n">>) THEN "Housing"
        ELSE IF has(<<"r", "a", "t", "e">>) \/ has(<<"y", "i", "e", "l", "d">>) THEN "Rates"
        ELSE IF has(<<"t", "r", "a", "d", "e">>) \/ has(<<"e", "x", "p", "o", "r", "t">>) \/ has(<<"i", "m", "p", "o", "r", "t">>) THEN "Trade"
        ELSE "Other"

\* etl_import.py:446-460: one month of one indicator row
MacroInsert(st, country_id, ind, col, value) ==
    IF value = None THEN st
    ELSE [st EXCEPT
             !.table = InsertOrIgnore(@, "macro_indicators",
                 [country_id |-> country_id,
                  indicator_date |-> MacroDate(col - 2),
                  indicator_name |-> ind.name,
                  bloomberg_ticker |-> ind.ticker,
                  indicator_value |-> value,
                  indicator_category |-> Category(ind.name)]),
             !.count = @ + 1]

\* etl_import.py:443-460: the months of one indicator row, from column col on;
\* st is [table, map, count]
RECURSIVE MacroMonths(_, _, _, _, _, _)
MacroMonths(st, df, row_idx, country_id, ind, col) ==
    IF ~(col < Width(df)) THEN st
    ELSE MacroMonths(MacroInsert(st, country_id, ind, col,
                                 CleanValue(Cell(df, row_idx, col))),
                     df, row_idx, country_id, ind, col + 1)

\* etl_import.py:418-460: the indicator row row_idx
MacroRow(st, df, country_id, row_idx, indicator_name, bloomberg_ticker) ==
    IF indicator_name = <<>> \/ indicator_name = W_NAN THEN st
    ELSE MacroMonths(st, df, row_idx, country_id,
                     [name |-> indicator_name, ticker |-> bloomberg_ticker], 2)

\* etl_import.py:417-460: the indicator rows from row_idx on
RECURSIVE MacroRows(_, _, _, _)
MacroRows(st, df, country_id, row_idx) ==
    IF ~(row_idx < Len(df)) THEN st
    ELSE MacroRows(
             MacroRow(st, df, country_id, row_idx,
                      StripOr(Cell(df, row_idx, 0), <<>>),
                      IF Cell(df, row_idx, 1).k = "nan" THEN None
                      ELSE StrCell(Strip(StrOf(Cell(df, row_idx, 1))))),
             df, country_id, row_idx + 1)

ImportMacro(db, file, country_id) ==
    IF file.state = "missing" \/ (Len(file.df) > 2 /\ Width(file.df) < 2)
    THEN Failed(db, <<>>)
    ELSE Commit(db, "macro_indicators",
             MacroRows([table |-> db.macro_indicators, map |-> <<>>, count |-> 0],
                       file.df, country_id, 2))

\* ----------------------------------------------------- import_interest_rates
\* The dict col_map of etl_import.py:482-493.
ColMap ==
    << [country_id |-> "US", rate_type |-> "10Y_YIELD", ticker |-> "USGG10YR Index"],
       [country_id |-> "GB", rate_type |-> "10Y_YIELD", ticker |-> "GTGBP10Y Govt"],
       [country_id |-> "DE", rate_type |-> "10Y_YIELD", ticker |-> "GTDEM10Y Govt"],
       [country_id |-> "JP", rate_type |-> "10Y_YIELD", ticker |-> "GTJPY10Y Govt"],
       [country_id |-> "CN", rate_type |-> "10Y_YIELD", ticker |-> "GTCNY10Y Govt"],
       [country_id |-> "US", rate_type |-> "POLICY_RATE", ticker |-> "FDTR Index"],
       [country_id |-> "GB", rate_type |-> "POLICY_RATE", ticker |-> "UKBRBASE Index"],
       [country_id |-> "DE", rate_type |-> "POLICY_RATE", ticker |-> "EURR002W Index"],
       [country_id |-> "JP", rate_type |-> "POLICY_RATE", ticker |-> "BOJDTR Index"],
       [country_id |-> "CN", rate_type |-> "POLICY_RATE", ticker |-> "PBOC7P Index"] >>

\* etl_import.py:508-517: one column of one data row
RateInsert(st, rate_date, col, value) ==
    IF value = None THEN st
    ELSE [st EXCEPT
             !.table = InsertOrIgnore(@, "interest_rates",
                 [country_id |-> ColMap[col].country_id,
                  rate_date |-> rate_date,
                  rate_type |-> ColMap[col].rate_type,
                  bloomberg_ticker |-> ColMap[col].ticker,
                  rate_value |-> value]),
             !.count = @ + 1]

\* etl_import.py:504-517: the columns of one data row, from column col on
RECURSIVE RateCols(_, _, _, _, _)
RateCols(st, df, row_idx, rate_date, col) ==
    IF col > Len(ColMap) THEN st
    ELSE RateCols(RateInsert(st, rate_date, col,
                             IF col >= Width(df) THEN None
                             ELSE CleanValue(Cell(df, row_idx, col))),
                  df, row_idx, rate_date, col + 1)

\* etl_import.py:499-517: the data row row_idx, whose date parsed to rate_date
RateRow(st, df, row_idx, rate_date) ==
    IF rate_date = None THEN st ELSE RateCols(st, df, row_idx, rate_date.s, 1)

\* etl_import.py:498-517: the data rows from row_idx on
RECURSIVE RateRows(_, _, _)
RateRows(st, df, row_idx) ==
    IF ~(row_idx < Len(df)) THEN st
    ELSE RateRows(RateRow(st, df, row_idx,
                          ParseBloombergDate(Cell(df, row_idx, 0))),
                  df, row_idx + 1)

ImportInterestRates(db, file) ==
    IF file.state = "missing" THEN Failed(db, <<>>)
    ELSE Commit(db, "interest_rates",
             RateRows([table |-> db.interest_rates, map |-> <<>>, count |-> 0],
                      file.df, 6))

\* ------------------------------------------- inputs of the helper functions
CleanAlphabet == {" ", "#", "N", "/", "A", "-", ",", "1", "."}

RECURSIVE StringsUpTo(_, _)
StringsUpTo(alphabet, n) ==
    IF n = 0 THEN {<<>>}
    ELSE LET shorter == StringsUpTo(alphabet, n - 1)
         IN  shorter \cup {s \o <<c>> : s \in shorter, c \in alphabet}

\* a marker as the vendor writes it, alone or inside blanks
Padded(s) == {s, <<" ">> \o s, s \o <<" ">>, <<" ", " ">> \o s \o <<" ">>}

CleanInputs ==
    {NaN}
    \cup {StrCell(s) : s \in StringsUpTo(CleanAlphabet, MaxStrLen)}
    \cup {StrCell(p) : p \in UNION {Padded(mk) : mk \in NAMarkers}}

DateYears == {2023, 2024}

\* A date as a source writes it: format f of Formats, zero-padded or not,
\* inside blanks or not.
Render(f, y, m, d, pad, ws) ==
    LET fmt == Formats[f]
        w == IF pad THEN 2 ELSE 1
        txt(dir) == IF dir = "Y" THEN Pad(y, 4)
                    ELSE IF dir = "m" THEN Pad(m, w) ELSE Pad(d, w)
        body == txt(fmt.order[1]) \o <<fmt.sep>> \o txt(fmt.order[2])
                \o <<fmt.sep>> \o txt(fmt.order[3])
    IN  IF ws THEN <<" ">> \o body \o <<" ">> ELSE body

\* Texts no format of the list accepts.
Garbage ==
    { <<>>, <<"x">>, <<"-", "-">>,
      <<"2", "4", "-", "0", "1", "-", "0", "5">>,
      <<"2", "0", "2", "4", ".", "0", "1", ".", "0", "5">>,
      <<"2", "0", "2", "4", "-", "0", "1">>,
      <<"2", "0", "2", "4", "-", "0", "1", "-", "0", "5", "-">>,
      <<"2", "0", "2", "4", "-", "0", "1", "-", "0", "5", " ",
        "0", "0", ":", "0", "0", ":", "0", "0">> }

DateCases ==
    {[kind |-> "missing"]}
    \cup {[kind |-> "garbage", s |-> g] : g \in Garbage}
    \cup [kind : {"dt"}, y : DateYears, m : 1..12, d : 1..31]
    \cup [kind : {"text"}, f : 1..6, y : DateYears, m : 1..12, d : 1..31,
          pad : BOOLEAN, ws : BOOLEAN]

\* a datetime cell holds a real date
RealCase(c) == c.kind = "dt" => ValidDate(c.y, c.m, c.d)

CellOfCase(c) ==
    IF c.kind = "missing" THEN NaN
    ELSE IF c.kind = "garbage" THEN StrCell(c.s)
    ELSE IF c.kind = "dt" THEN [k |-> "dt", y |-> c.y, m |-> c.m, d |-> c.d]
    ELSE StrCell(Render(c.f, c.y, c.m, c.d, c.pad, c.ws))

\* ------------------------------------------------------ the source files
SeqsUpTo(S, n) == UNION {[1..k -> S] : k \in 0..n}

Missing == [state |-> "missing"]

T_A == <<"A">>
T_B == <<"B">>
TickerCells == {StrCell(T_A), StrCell(T_B)}

\* company_master.csv after its first line: the ticker column and NAME
\* with a row whose ticker the vendor could not resolve in front, or without
CompanyRow(ticker) == [ticker |-> StrCell(ticker), name |-> StrCell(<<"n">>)]
CompanyRows == {CompanyRow(T_A), CompanyRow(T_B)}
CompanyFiles ==
    {Missing}
    \cup [state : {"ok"}, rows : SeqsUpTo(CompanyRows, MaxCompanies)]
    \cup {[state |-> "ok", rows |-> <<CompanyRow(NA_HASH)>> \o rows] :
             rows \in SeqsUpTo(CompanyRows, 1)}

\* one day written two ways, and a text that is no date
D_ISO == StrCell(<<"2", "0", "2", "4", "-", "1", "2", "-", "3", "1">>)
D_US == StrCell(<<"1", "2", "/", "3", "1", "/", "2", "0", "2", "4">>)
D_NONE == StrCell(<<"n", ".", "a", ".">>)

\* index_membership_snapshot.csv
MembCols == {"index_id", "as_of_date", "Ticker", "Weight", "Shares", "Price"}
MembRow(ticker, date, weight) ==
    [Ticker |-> StrCell(ticker), index_id |-> "SPX", as_of_date |-> date,
     Weight |-> StrCell(weight), Shares |-> NaN, Price |-> NaN]
MembRows ==
    {MembRow(T_A, D_ISO, <<"1">>), MembRow(T_A, D_US, <<"2">>),
     MembRow(T_A, D_NONE, <<"1">>), MembRow(T_B, D_ISO, NA_HASH)}
MembFiles ==
    {Missing}
    \cup [state : {"ok"}, cols : {MembCols}, rows : SeqsUpTo(MembRows, MaxRows)]
    \cup [state : {"ok"}, cols : {MembCols \ {"Weight"}},
          rows : SeqsUpTo(MembRows, 1)]

\* A wide export: the tickers of its blocks, the labels of one block, and
\* its data rows, each a date and the cells of one block (every block of a
\* row holds the same cells).  Rows 0-2 and the row between the labels and
\* the data are blank, as in the vendor's layout.
RECURSIVE Repeat(_, _)
Repeat(s, n) == IF n = 0 THEN <<>> ELSE s \o Repeat(s, n - 1)

RECURSIVE Blocks(_, _)
Blocks(tickers, per) ==
    IF tickers = <<>> THEN <<>>
    ELSE <<Head(tickers)>> \o [i \in 1..(per - 1) |-> NaN] \o Blocks(Tail(tickers), per)

WideDf(tickers, labels, data, field_row_idx) ==
    LET n == Len(tickers)
        w == 1 + n * Len(labels)
        blank == [i \in 1..w |-> NaN]
        ticker_row == <<NaN>> \o Blocks(tickers, Len(labels))
        field_row == <<NaN>> \o Repeat(labels, n)
        head == [i \in 1..6 |->
                    IF i = 4 THEN ticker_row
                    ELSE IF i = field_row_idx + 1 THEN field_row ELSE blank]
    IN  head \o [i \in 1..Len(data) |-> <<data[i].date>> \o Repeat(data[i].cells, n)]

TickerRows == {<<StrCell(T_A)>>, <<StrCell(T_A), StrCell(T_B)>>}

\* price_weekly.xlsx.xlsx
PriceLabels == <<StrCell(<<"L", "a", "s", "t", " ", "P", "r", "i", "c", "e">>), StrCell(<<"D", "a", "y", " ", "t", "o", " ", "D", "a", "y", " ", "T", "o", "t", "a", "l", " ", "R", "e", "t", "u", "r", "n">>)>>
PriceData ==
    {[date |-> D_ISO, cells |-> <<StrCell(<<"1">>), StrCell(<<"2">>)>>],
     [date |-> D_ISO, cells |-> <<StrCell(<<"3">>), StrCell(NA_HASH)>>],
     [date |-> D_ISO, cells |-> <<StrCell(NA_HASH), StrCell(<<"2">>)>>],
     [date |-> D_NONE, cells |-> <<StrCell(<<"1">>), StrCell(<<"2">>)>>]}
PriceFiles ==
    {Missing}
    \cup {[state |-> "ok", df |-> WideDf(tk, PriceLabels, data, 4)] :
             tk \in TickerRows, data \in SeqsUpTo(PriceData, MaxRows)}

\* financials_annual.xlsx and financials_quarterly.xlsx
FinLabels ==
    <<StrCell(L_SALES_REV_TURN), StrCell(L_EBITDA), NaN, NaN, NaN, NaN, NaN>>
FinRow(date, revenue) ==
    [date |-> date,
     cells |-> <<StrCell(revenue), StrCell(NA_HASH), NaN, NaN, NaN, NaN, NaN>>]
\* a row with EBITDA and without revenue
FinRowEbitda ==
    [date |-> D_ISO,
     cells |-> <<StrCell(NA_HASH), StrCell(<<"7">>), NaN, NaN, NaN, NaN, NaN>>]
FinData ==
    {FinRow(D_ISO, <<"5">>), FinRow(D_ISO, <<"6">>), FinRow(D_ISO, NA_HASH),
     FinRow(D_NONE, <<"5">>), FinRowEbitda}
\* field labels that field_map does not know
FinLabelsUnknown ==
    <<StrCell(<<"P", "X", "_", "L", "A", "S", "T">>), NaN, NaN, NaN, NaN, NaN, NaN>>
FinFiles ==
    {Missing}
    \cup {[state |-> "ok", df |-> WideDf(tk, FinLabels, data, 5)] :
             tk \in TickerRows, data \in SeqsUpTo(FinData, MaxRows)}
    \cup {[state |-> "ok",
           df |-> WideDf(<<StrCell(T_A)>>, FinLabelsUnknown,
                         <<FinRow(D_ISO, <<"5">>)>>, 5)]}

\* <country>_macros_2024~2005.xlsx with two months of values
MacroNames == {StrCell(<<"G", "D", "P">>), StrCell(<<"I", "m", "p", "o", "r", "t", " ", "P", "r", "i", "c", "e">>), NaN}
MacroData ==
    {<<n, StrCell(<<"T">>), v1, v2>> :
        n \in MacroNames,
        v1 \in {StrCell(<<"7">>), StrCell(NA_HASH)},
        v2 \in {StrCell(<<"8">>), NaN}}
MacroFiles ==
    {Missing}
    \cup {[state |-> "ok",
           df |-> << <<NaN, NaN, NaN, NaN>>, <<NaN, NaN, NaN, NaN>> >> \o data] :
             data \in SeqsUpTo(MacroData, MaxRows)}

\* 5 countries 10y yield and policy rate.xlsx
RateData ==
    {<<d, y, NaN, NaN, NaN, NaN, pr, NaN, NaN, NaN, NaN>> :
        d \in {D_ISO, D_NONE},
        y \in {StrCell(<<"3">>), StrCell(NA_HASH)},
        pr \in {StrCell(<<"4">>), NaN}}
RateFiles ==
    {Missing}
    \cup {[state |-> "ok", df |-> [i \in 1..6 |-> [c \in 1..11 |-> NaN]] \o data] :
             data \in SeqsUpTo(RateData, MaxRows)}

\* ------------------------------------------------ specification: the loader
\* The import functions called on one connection: import_companies on a new
\* database, then one import, then the same import again on the same input.
Call(fn, arg, d, m, file) ==
    CASE fn = "import_companies" -> ImportCompanies(d, file)
      [] fn = "import_index_membership" -> ImportIndexMembership(d, m, file)
      [] fn = "import_prices_weekly" -> ImportPricesWeekly(d, m, file)
      [] fn = "import_financials" -> ImportFinancials(d, m, file, arg)
      [] fn = "import_macro" -> ImportMacro(d, file, arg)
      [] fn = "import_interest_rates" -> ImportInterestRates(d, file)

\* the table an import writes
TableOf(fn) ==
    CASE fn = "import_companies" -> "companies"
      [] fn = "import_index_membership" -> "index_membership"
      [] fn = "import_prices_weekly" -> "prices_weekly"
      [] fn = "import_financials" -> "financials"
      [] fn = "import_macro" -> "macro_indicators"
      [] fn = "import_interest_rates" -> "interest_rates"

\* the dict the caller holds after the call: import_companies returns a new
\* one, the other imports update the caller's in place or leave it alone
MapAfter(fn, r, m) ==
    IF fn \in {"import_macro", "import_interest_rates"} THEN m ELSE r.map

\* the caller's state after the first call of fn(arg) on file, which gave r
FirstCall(from, fn, arg, file, r) ==
    /\ ld_phase = from
    /\ macroalpha_db' = r.db
    /\ id_map' = MapAfter(fn, r, id_map)
    /\ ld_call' = [fn |-> fn, arg |-> arg, file |-> file]
    /\ ld_base' = [db |-> macroalpha_db, map |-> id_map]
    /\ ld_first' = [db |-> r.db, err |-> r.err, count |-> r.count]
    /\ ld_phase' = IF r.err THEN "failed"
                   ELSE IF fn = "import_companies" THEN "companies" ELSE "once"
    /\ UNCHANGED otherThanLoad

\* the caller's state after the second call, which gave r
SecondCall(r) ==
    /\ ld_phase \in {"companies", "once"}
    /\ macroalpha_db' = r.db
    /\ id_map' = MapAfter(ld_call.fn, r, id_map)
    /\ ld_phase' = "twice"
    /\ UNCHANGED <<ld_call, ld_base, ld_first, otherThanLoad>>

StartLoad ==
    /\ macroalpha_db = EmptyDb
    /\ id_map = <<>>
    /\ ld_phase = "new"
    /\ ld_call = <<>> /\ ld_base = <<>> /\ ld_first = <<>>

InitLoad == StartLoad /\ IdleClean /\ IdleDate /\ IdleFix /\ IdleEtl /\ IdleMore

LoadCompanies ==
    \E f \in CompanyFiles :
        FirstCall("new", "import_companies", "", f,
                  ImportCompanies(macroalpha_db, f))

LoadIndexMembership ==
    \E f \in MembFiles :
        FirstCall("companies", "import_index_membership", "", f,
                  ImportIndexMembership(macroalpha_db, id_map, f))

LoadPricesWeekly ==
    \E f \in PriceFiles :
        FirstCall("companies", "import_prices_weekly", "", f,
                  ImportPricesWeekly(macroalpha_db, id_map, f))

LoadFinancials ==
    \E f \in FinFiles, period_type \in {"ANNUAL", "QUARTERLY"} :
        FirstCall("companies", "import_financials", period_type, f,
                  ImportFinancials(macroalpha_db, id_map, f, period_type))

LoadMacro ==
    \E f \in MacroFiles :
        FirstCall("new", "import_macro", "US", f,
                  ImportMacro(macroalpha_db, f, "US"))

LoadInterestRates ==
    \E f \in RateFiles :
        FirstCall("new", "import_interest_rates", "", f,
                  ImportInterestRates(macroalpha_db, f))

\* the import of ld_call once more, on the same input
Rerun ==
    SecondCall(Call(ld_call.fn, ld_call.arg, macroalpha_db, id_map, ld_call.file))

NextLoad ==
    \/ LoadCompanies
    \/ LoadIndexMembership
    \/ LoadPricesWeekly
    \/ LoadFinancials
    \/ LoadMacro
    \/ LoadInterestRates
    \/ Rerun

SpecLoad == InitLoad /\ [][NextLoad]_vars

\* --------------------------------------------------- specification: main
\* The statements of the try block of main, etl_import.py:535-578, in the
\* order of the source.
Steps ==
    << "create_database", "import_companies", "import_index_membership",
       "import_prices_weekly", "import_financials ANNUAL",
       "import_financials QUARTERLY", "import_macro US", "import_macro GB",
       "import_macro DE", "import_macro JP", "import_macro CN",
       "import_interest_rates", "summary" >>

StepNo(name) == CHOOSE k \in 1..Len(Steps) : Steps[k] = name

\* etl_import.py:584-585, the finally clause, and the end of main
Finally == Len(Steps) + 1
Ended == Len(Steps) + 2

\* the statements are run out of order
StepAfter_Swapped(k) ==
    IF k = 2 THEN 4 ELSE IF k = 4 THEN 3 ELSE IF k = 3 THEN 5 ELSE k + 1

\* the statement that follows statement k of the try block
StepAfter(k) == k + 1

\* an exception is reported and the run goes on with the next statement
AfterRaise_Continues(k) == StepAfter(k)

\* an exception ends main without the finally clause
AfterRaise_NoFinally(k) == Ended

\* etl_import.py:580-585: an exception in statement k leaves the try block
\* for the except clause, and the finally clause follows
AfterRaise(k) == Finally

\* etl_import.py:550-556: the list macro_files
MacroCountries == <<"US", "GB", "DE", "JP", "CN">>

\* etl_import.py:75-85: schema.sql is read and executed
CreateDatabase(db, schema) ==
    IF schema = "missing" THEN Failed(db, <<>>) ELSE Done(EmptyDb, <<>>, 0)

\* The files one run of main may find.
MainCompanyFiles ==
    {Missing,
     [state |-> "ok", rows |-> <<CompanyRow(T_A), CompanyRow(T_B)>>],
     [state |-> "ok", rows |-> <<CompanyRow(T_A), CompanyRow(T_A), CompanyRow(T_B)>>]}
MainMembFiles ==
    {Missing,
     [state |-> "ok", cols |-> MembCols,
      rows |-> <<MembRow(T_A, D_ISO, <<"1">>), MembRow(T_B, D_ISO, NA_HASH)>>],
     [state |-> "ok", cols |-> MembCols \ {"Weight"},
      rows |-> <<MembRow(T_A, D_ISO, <<"1">>)>>]}
MainPriceFiles ==
    {Missing,
     [state |-> "ok",
      df |-> WideDf(<<StrCell(T_A), StrCell(T_B)>>, PriceLabels,
                    <<[date |-> D_ISO, cells |-> <<StrCell(<<"1">>), StrCell(<<"2">>)>>]>>,
                    4)]}
MainFinFiles ==
    {Missing,
     [state |-> "ok",
      df |-> WideDf(<<StrCell(T_A)>>, FinLabels, <<FinRow(D_ISO, <<"5">>)>>, 5)]}
\* a workbook that ends before the row of the field labels
ShortWorkbook == [state |-> "ok", df |-> [i \in 1..5 |-> <<NaN, NaN>>]]
\* a workbook of one column
NarrowWorkbook == [state |-> "ok", df |-> [i \in 1..3 |-> <<NaN>>]]
MainMacroFiles ==
    {Missing, NarrowWorkbook,
     [state |-> "ok",
      df |-> << <<NaN, NaN, NaN>>, <<NaN, NaN, NaN>>,
                <<StrCell(<<"G", "D", "P">>), StrCell(<<"T">>), StrCell(<<"7">>)>> >>]}
MainRateFiles ==
    {Missing,
     [state |-> "ok",
      df |-> [i \in 1..6 |-> [c \in 1..11 |-> NaN]]
             \o << <<D_ISO, StrCell(<<"3">>), NaN, NaN, NaN, NaN,
                     StrCell(<<"4">>), NaN, NaN, NaN, NaN>> >>]}

\* etl_import.py:533
StartMain ==
    /\ macroalpha_db = <<>>
    /\ id_map = <<>>
    /\ etl_pc = 1
    /\ etl_log = <<>>
    /\ etl_out = <<>>
    /\ etl_conn = "open"

Init == StartMain /\ IdleClean /\ IdleDate /\ IdleFix /\ IdleLoad /\ IdleMore

\* Statement k of the try block ran and gave r: the run goes on with the
\* next statement, or an exception is printed by the except clause.
Ran(k, r, map) ==
    /\ etl_pc = k
    /\ macroalpha_db' = r.db
    /\ id_map' = map
    /\ etl_log' = Append(etl_log,
                         [step |-> Steps[k],
                          result |-> IF r.err THEN "failed" ELSE "ok",
                          db |-> r.db])
    /\ etl_out' = IF r.err THEN Append(etl_out, "Error") ELSE etl_out
    /\ etl_pc' = IF r.err THEN AfterRaise(k) ELSE StepAfter(k)
    /\ UNCHANGED <<etl_conn, otherThanEtl>>

\* etl_import.py:546 and 558: the file of statement k does not exist and the
\* statement is passed over
Skipped(k) ==
    /\ etl_pc = k
    /\ etl_log' = Append(etl_log,
                         [step |-> Steps[k], result |-> "skipped",
                          db |-> macroalpha_db])
    /\ etl_pc' = StepAfter(k)
    /\ UNCHANGED <<etl_out, etl_conn, dbVars, otherThanEtl>>

MainCreateDatabase ==
    \E schema \in {"found", "missing"} :
        Ran(StepNo("create_database"), CreateDatabase(macroalpha_db, schema),
            id_map)

MainImportCompanies ==
    \E f \in MainCompanyFiles :
        Ran(StepNo("import_companies"), ImportCompanies(macroalpha_db, f),
            ImportCompanies(macroalpha_db, f).map)

MainImportIndexMembership ==
    \E f \in MainMembFiles :
        Ran(StepNo("import_index_membership"),
            ImportIndexMembership(macroalpha_db, id_map, f), id_map)

MainImportPricesWeekly ==
    \E f \in MainPriceFiles :
        Ran(StepNo("import_prices_weekly"),
            ImportPricesWeekly(macroalpha_db, id_map, f),
            ImportPricesWeekly(macroalpha_db, id_map, f).map)

MainImportFinancialsAnnual ==
    \E f \in MainFinFiles :
        Ran(StepNo("import_financials ANNUAL"),
            ImportFinancials(macroalpha_db, id_map, f, "ANNUAL"),
            ImportFinancials(macroalpha_db, id_map, f, "ANNUAL").map)

MainImportFinancialsQuarterly ==
    \E f \in MainFinFiles \cup {ShortWorkbook} :
        IF f.state = "missing" THEN Skipped(StepNo("import_financials QUARTERLY"))
        ELSE Ran(StepNo("import_financials QUARTERLY"),
                 ImportFinancials(macroalpha_db, id_map, f, "QUARTERLY"),
                 ImportFinancials(macroalpha_db, id_map, f, "QUARTERLY").map)

MainImportMacro ==
    \E i \in 1..Len(MacroCountries), f \in MainMacroFiles :
        IF f.state = "missing"
        THEN Skipped(StepNo("import_macro US") + i - 1)
        ELSE Ran(StepNo("import_macro US") + i - 1,
                 ImportMacro(macroalpha_db, f, MacroCountries[i]), id_map)

MainImportInterestRates ==
    \E f \in MainRateFiles :
        Ran(StepNo("import_interest_rates"),
            ImportInterestRates(macroalpha_db, f), id_map)

\* etl_import.py:564-578
MainSummary ==
    /\ etl_pc = StepNo("summary")
    /\ etl_log' = Append(etl_log,
                         [step |-> "summary", result |-> "ok",
                          db |-> macroalpha_db])
    /\ etl_out' = Append(etl_out, "ETL Complete")
    /\ etl_pc' = StepAfter(etl_pc)
    /\ UNCHANGED <<etl_conn, dbVars, otherThanEtl>>

\* etl_import.py:584-585
MainFinally ==
    /\ etl_pc = Finally
    /\ etl_conn' = "closed"
    /\ etl_pc' = Ended
    /\ UNCHANGED <<etl_log, etl_out, dbVars, otherThanEtl>>

Next ==
    \/ MainCreateDatabase
    \/ MainImportCompanies
    \/ MainImportIndexMembership
    \/ MainImportPricesWeekly
    \/ MainImportFinancialsAnnual
    \/ MainImportFinancialsQuarterly
    \/ MainImportMacro
    \/ MainImportInterestRates
    \/ MainSummary
    \/ MainFinally

Spec == Init /\ [][Next]_vars

\* main is one thread that runs until its last statement
FairSpec == Spec /\ WF_vars(Next)

\* ------------------------------------- specification: indicator categories
\* words of an indicator name in one row of a macro workbook
MaxWords == 2

\* The words the names of the model are made of, each with the category its
\* key word stands for.
NameWords ==
    << [w |-> <<"G", "D", "P">>, c |-> "GDP"],
       [w |-> <<"C", "P", "I">>, c |-> "CPI"],
       [w |-> <<"P", "r", "i", "c", "e">>, c |-> "CPI"],
       [w |-> <<"I", "n", "f", "l", "a", "t", "i", "o", "n">>, c |-> "CPI"],
       [w |-> <<"U", "n", "e", "m", "p", "l", "o", "y", "m", "e", "n", "t">>, c |-> "Employment"],
       [w |-> <<"E", "m", "p", "l", "o", "y", "e", "e", "s">>, c |-> "Employment"],
       [w |-> <<"H", "o", "u", "s", "i", "n", "g">>, c |-> "Housing"],
       [w |-> <<"C", "o", "n", "s", "t", "r", "u", "c", "t", "i", "o", "n">>, c |-> "Housing"],
       [w |-> <<"R", "a", "t", "e">>, c |-> "Rates"],
       [w |-> <<"Y", "i", "e", "l", "d">>, c |-> "Rates"],
       [w |-> <<"T", "r", "a", "d", "e">>, c |-> "Trade"],
       [w |-> <<"E", "x", "p", "o", "r", "t", "s">>, c |-> "Trade"],
       [w |-> <<"I", "m", "p", "o", "r", "t">>, c |-> "Trade"],
       [w |-> <<"I", "n", "d", "e", "x">>, c |-> "Other"] >>

\* the name made of the words ws[1], ws[2], ... of NameWords
RECURSIVE NameOf(_)
NameOf(ws) ==
    IF ws = <<>> THEN <<>>
    ELSE IF Len(ws) = 1 THEN NameWords[ws[1]].w
    ELSE NameWords[ws[1]].w \o <<" ">> \o NameOf(Tail(ws))

IndicatorNames ==
    {NameOf(ws) : ws \in UNION {[1..n -> 1..Len(NameWords)] : n \in 1..MaxWords}}

\* etl_import.py:418: the name of an indicator row was read
StartCat == cat_name \in IndicatorNames /\ category = "none"

InitCat == StartCat /\ IdleEarly /\ IdlePrices /\ IdleViz

\* etl_import.py:424-440
CategoryStep ==
    /\ category = "none"
    /\ category' = Category(cat_name)
    /\ UNCHANGED <<cat_name, earlyVars, priceVars, vizVars>>

NextCat == CategoryStep

SpecCat == InitCat /\ [][NextCat]_vars

\* ---------------------------------------------- specification: clean_value

InitClean ==
    /\ cv_in \in CleanInputs
    /\ cv_out = Pending
    /\ IdleDate /\ IdleFix /\ IdleDb /\ IdleLoad /\ IdleEtl /\ IdleMore

CallCleanValue ==
    /\ cv_out = Pending
    /\ cv_out' = CleanValue(cv_in)
    /\ UNCHANGED <<cv_in, dateVars, fixVars, dbVars, loadVars, etlVars, moreVars>>

NextClean == CallCleanValue

SpecClean == InitClean /\ [][NextClean]_vars

\* ------------------------------------- specification: parse_bloomberg_date
InitDate ==
    /\ pd_in \in {c \in DateCases : RealCase(c)}
    /\ pd_out = Pending
    /\ IdleClean /\ IdleFix /\ IdleDb /\ IdleLoad /\ IdleEtl /\ IdleMore

CallParseBloombergDate ==
    /\ pd_out = Pending
    /\ pd_out' = ParseBloombergDate(CellOfCase(pd_in))
    /\ UNCHANGED <<pd_in, cleanVars, fixVars, dbVars, loadVars, etlVars, moreVars>>

NextDate == CallParseBloombergDate

SpecDate == InitDate /\ [][NextDate]_vars

\* ------------------------------------------------ specification: fix_dates
InitFix == StartFix /\ IdleClean /\ IdleDate /\ IdleDb /\ IdleLoad /\ IdleEtl /\ IdleMore

NextFix ==
    \/ FixOneWorkbook
    \/ FixOneWorkbookFails
    \/ FixFinish

SpecFix == InitFix /\ [][NextFix]_vars

\* ------------------------- specification: the calendar loop of import_macro
\* etl_import.py:396-397: a workbook of any width with at least two columns
StartMacro ==
    /\ num_months \in 0..MaxMonths
    /\ col_offset = 0
    /\ date_map = <<>>

InitMacro == StartMacro /\ IdleCore /\ IdleCols /\ IdleComb /\ IdleExp

\* etl_import.py:401-411: one turn of `for col_offset in range(num_months)`
MacroDateStep ==
    /\ col_offset < num_months
    /\ date_map' = [col \in DOMAIN date_map \cup {2 + col_offset} |->
                       IF col = 2 + col_offset THEN MacroDate(col_offset)
                       ELSE date_map[col]]
    /\ col_offset' = col_offset + 1
    /\ UNCHANGED <<num_months, coreVars, colVars, combVars, expVars>>

NextMacro == MacroDateStep

SpecMacro == InitMacro /\ [][NextMacro]_vars

\* ----------------- specification: the column mapping of import_prices_weekly
\* field labels of a price workbook: the two of the export, one that names
\* both words, one that names neither, and a missing cell
FieldLabels ==
    {StrCell(<<"L", "a", "s", "t", " ">> \o W_PRICE),
     StrCell(<<"T", "o", "t", "a", "l", " ">> \o W_RETURN),
     StrCell(W_PRICE \o <<" ">> \o W_RETURN),
     StrCell(<<"V", "o", "l", "u", "m", "e">>),
     NaN}

\* rows 3 and 4 of a workbook of w columns: tickers at the odd columns
TickerRowsOf(w) ==
    {r \in [1..w -> {StrCell(T_A), StrCell(T_B), NaN}] :
        \A i \in 1..w : (i % 2 = 1) => r[i] = NaN}
FieldRowsOf(w) ==
    {r \in [1..w -> FieldLabels] : r[1] = NaN}

\* etl_import.py:204-210
StartCols ==
    /\ \E w \in 1..MaxWidth :
          /\ pw_ticker_row \in TickerRowsOf(w)
          /\ pw_field_row \in FieldRowsOf(w)
    /\ pw_col = 1
    /\ pw_ticker_cols = <<>>

InitCols == StartCols /\ IdleCore /\ IdleMacro /\ IdleComb /\ IdleExp

\* etl_import.py:211-224: one turn of `while col < len(ticker_row)`
TickerColsStep ==
    /\ pw_col < Len(pw_ticker_row)
    /\ pw_ticker_cols' = TickerColsAt(pw_ticker_cols,
                              StripOr(Iloc(pw_ticker_row, pw_col), <<>>),
                              pw_field_row, pw_col)
    /\ pw_col' = pw_col + 2
    /\ UNCHANGED <<pw_ticker_row, pw_field_row, coreVars, macroVars, combVars, expVars>>

NextCols == TickerColsStep

SpecCols == InitCols /\ [][NextCols]_vars

\* ------------------------------------------------------------- combine_memb
\* the characters of the file names, in code point order
CharOrder == <<" ", ".">> \o DigitSeq \o UpperCase \o LowerCase
Ord(c) == CHOOSE i \in 1..Len(CharOrder) : CharOrder[i] = c

\* a < b for two Python strings
LessStr(a, b) ==
    \E i \in 1..(Len(b)) :
        /\ \A j \in 1..(i - 1) : j <= Len(a) /\ a[j] = b[j]
        /\ (i > Len(a) \/ (i <= Len(a) /\ Ord(a[i]) < Ord(b[i])))

\* combine_memb.py:9: sorted() of a set of files, by name
RECURSIVE SortedFiles(_)
SortedFiles(S) ==
    IF S = {} THEN <<>>
    ELSE LET f == CHOOSE x \in S : \A y \in S \ {x} : LessStr(x.name, y.name)
         IN  <<f>> \o SortedFiles(S \ {f})

\* combine_memb.py:21: a match of 20\d{2} at position i of name
YearAt(name, i) ==
    /\ i + 3 <= Len(name)
    /\ name[i] = "2" /\ name[i + 1] = "0"
    /\ name[i + 2] \in Digits /\ name[i + 3] \in Digits

\* combine_memb.py:21-24: re.search, the leftmost match; 0 when there is none
FindYear(name) ==
    IF \E i \in 1..Len(name) : YearAt(name, i)
    THEN LET i == CHOOSE k \in 1..Len(name) :
                      YearAt(name, k) /\ \A j \in 1..(k - 1) : ~YearAt(name, j)
         IN  DigitsToNat(SubSeq(name, i, i + 3))
    ELSE 0

\* combine_memb.py:33-36: the place of column c in the frame, 0 when absent
ColumnOf(columns, c) ==
    IF \E i \in 1..Len(columns) : Strip(columns[i]) = c
    THEN CHOOSE i \in 1..Len(columns) :
             Strip(columns[i]) = c /\ \A j \in 1..(i - 1) : Strip(columns[j]) # c
    ELSE 0

CellOf(columns, row, c) ==
    IF ColumnOf(columns, c) = 0 THEN NaN ELSE row[ColumnOf(columns, c)]

H_TICKER == <<"T", "i", "c", "k", "e", "r">>
H_NAME == <<"N", "a", "m", "e">>
H_WEIGHT == <<"W", "e", "i", "g", "h", "t">>
H_SHARES == <<"S", "h", "a", "r", "e", "s">>
H_PRICE == <<"P", "r", "i", "c", "e">>

\* the columns of the list at combine_memb.py:35, by the name the loader
\* reads them under
KeepList ==
    << [h |-> H_TICKER, name |-> "Ticker"], [h |-> H_NAME, name |-> "Name"],
       [h |-> H_WEIGHT, name |-> "Weight"], [h |-> H_SHARES, name |-> "Shares"],
       [h |-> H_PRICE, name |-> "Price"] >>

\* combine_memb.py:35-40, 49-50: the columns of the frame of file f
KeptColumns(f) ==
    {"index_id", "as_of_date"}
    \cup {KeepList[i].name : i \in {j \in 1..Len(KeepList) :
                                        ColumnOf(f.columns, KeepList[j].h) # 0}}

\* combine_memb.py:56: the columns of pd.concat are those of all its frames
ConcatColumns(files) == UNION {KeptColumns(files[i]) : i \in 1..Len(files)}

\* a consolidator that lets every file pass
CombineRaises_Never(f) == FALSE

\* combine_memb.py:22 and 37: the file makes the loop raise
CombineRaises(f) ==
    FindYear(f.name) = 0 \/ ColumnOf(f.columns, H_TICKER) = 0

\* combine_memb.py:43: df["Ticker"].notna()
KeepRow(columns, row) == CellOf(columns, row, H_TICKER) # NaN

\* combine_memb.py:18-51: one row of the frame of file f; a column that the
\* file does not have is NaN, as it is after pd.concat; src_file records the
\* file the row came from (it is no column of the table)
CombineRow(f, row) ==
    [index_id |-> SubSeq(f.name, 1, 3),
     as_of_date |-> NatToChars(FindYear(f.name)) \o <<"-", "1", "2", "-", "3", "1">>,
     Ticker |-> Strip(StrAny(CellOf(f.columns, row, H_TICKER))),
     Name |-> IF ColumnOf(f.columns, H_NAME) = 0 THEN NaN
              ELSE StrCell(Strip(StrAny(CellOf(f.columns, row, H_NAME)))),
     Weight |-> CellOf(f.columns, row, H_WEIGHT),
     Shares |-> CellOf(f.columns, row, H_SHARES),
     Price |-> CellOf(f.columns, row, H_PRICE),
     src_file |-> f.name]

\* combine_memb.py:30-51: the frame appended for file f
RECURSIVE CombineFrame(_, _)
CombineFrame(f, data) ==
    IF data = <<>> THEN <<>>
    ELSE (IF KeepRow(f.columns, Head(data)) THEN <<CombineRow(f, Head(data))>>
          ELSE <<>>) \o CombineFrame(f, Tail(data))

\* combine_memb.py:56: pd.concat(rows, ignore_index=True)
RECURSIVE Concat(_)
Concat(frames) ==
    IF frames = <<>> THEN <<>> ELSE Head(frames) \o Concat(Tail(frames))

SameKey(a, b) ==
    a.index_id = b.index_id /\ a.as_of_date = b.as_of_date /\ a.Ticker = b.Ticker

\* combine_memb.py:59: drop_duplicates keeps the first row of a key; the rows
\* come with their place in the concatenated frame
DropDuplicates(out) ==
    SelectSeq([i \in 1..Len(out) |-> [n |-> i, row |-> out[i]]],
              LAMBDA e : \A j \in 1..(e.n - 1) : ~SameKey(out[j], e.row))

\* the membership exports: file names and sheets
N_SPX_2005 == <<"S", "P", "X", " ", "a", "s", " ", "o", "f", " ", "2", "0", "0", "5", ".", "x", "l", "s", "x">>
N_SPX_20051 == <<"S", "P", "X", " ", "a", "s", " ", "o", "f", " ", "2", "0", "0", "5", "1", ".", "x", "l", "s", "x">>
N_UKX_2005 == <<"U", "K", "X", " ", "a", "s", " ", "o", "f", " ", "2", "0", "0", "5", ".", "x", "l", "s", "x">>
N_SPX_TWO == <<"S", "P", "X", " ", "a", "s", " ", "o", "f", " ", "1", " ", "2", "0", "0", "6", " ", "2", "0", "0", "7", ".", "x", "l", "s", "x">>
N_SPX_NOYEAR == <<"S", "P", "X", " ", "a", "s", " ", "o", "f", " ", "x", ".", "x", "l", "s", "x">>
ExportNames == {N_SPX_2005, N_SPX_20051, N_UKX_2005, N_SPX_TWO, N_SPX_NOYEAR}

C_TNW == <<H_TICKER, H_NAME, H_WEIGHT>>
Sheet(columns, data) == [columns |-> columns, data |-> data]
ExportSheets ==
    {Sheet(C_TNW, << <<StrCell(T_A), StrCell(<<"N">>), StrCell(<<"1">>)>> >>),
     Sheet(C_TNW, << <<StrCell(<<" ", "A", " ">>), StrCell(<<" ", "N">>), StrCell(<<"2">>)>>,
                    <<StrCell(T_B), NaN, StrCell(<<"1">>)>> >>),
     Sheet(C_TNW, << <<NaN, StrCell(<<"N">>), StrCell(<<"1">>)>>,
                    <<StrCell(T_A), StrCell(<<"N">>), StrCell(<<"3">>)>> >>),
     Sheet(C_TNW, << <<StrCell(<<" ">>), StrCell(<<"N">>), StrCell(<<"1">>)>> >>),
     Sheet(C_TNW, << <<StrCell(T_A), StrCell(<<"N">>), StrCell(<<"1">>)>>,
                    <<StrCell(T_A), StrCell(<<"N">>), StrCell(<<"2">>)>> >>),
     Sheet(<<<<"I", "d">>, <<" ">> \o H_TICKER \o <<" ">>, H_PRICE>>,
           << <<StrCell(<<"7">>), StrCell(T_B), StrCell(<<"9">>)>> >>),
     Sheet(<<H_NAME, H_WEIGHT>>, << <<StrCell(<<"N">>), StrCell(<<"1">>)>> >>),
     Sheet(<<H_TICKER>>, <<>>),
     Sheet(<<H_TICKER, H_NAME, H_WEIGHT, H_SHARES, H_PRICE>>,
           << <<StrCell(T_A), StrCell(<<"N">>), StrCell(<<"1">>), StrCell(<<"2">>), NaN>> >>)}

\* the names of the exports in the folder: up to MaxFiles, each name once
NameSets == {N \in SUBSET ExportNames : Cardinality(N) <= MaxFiles}

\* the files of the names N with the sheets sh
Folder(N, sh) ==
    {[name |-> n, columns |-> sh[n].columns, data |-> sh[n].data] : n \in N}

\* the snapshot of an earlier run
OldSnapshot ==
    [state |-> "written", out |-> <<>>, run |-> "earlier",
     columns |-> {"index_id", "as_of_date", "Ticker", "Name", "Weight", "Shares", "Price"}]

\* combine_memb.py:6-14
StartComb ==
    /\ \E N \in NameSets :
          \E sh \in [N -> ExportSheets] : cm_files = SortedFiles(Folder(N, sh))
    /\ cm_i = 1
    /\ cm_rows = <<>>
    /\ cm_csv \in {Missing, OldSnapshot}
    /\ cm_state = "reading"

InitComb == StartComb /\ IdleCore /\ IdleMacro /\ IdleCols /\ IdleExp

\* combine_memb.py:16-53: one turn of the loop, the file is read
CombineFile ==
    /\ cm_state = "reading" /\ cm_i <= Len(cm_files)
    /\ ~CombineRaises(cm_files[cm_i])
    /\ cm_rows' = Append(cm_rows, CombineFrame(cm_files[cm_i], cm_files[cm_i].data))
    /\ cm_i' = cm_i + 1
    /\ UNCHANGED <<cm_files, cm_csv, cm_state, coreVars, macroVars, colVars, expVars>>

\* combine_memb.py:23 and 38: raise ValueError ends the script
CombineFileRaises ==
    /\ cm_state = "reading" /\ cm_i <= Len(cm_files)
    /\ CombineRaises(cm_files[cm_i])
    /\ cm_state' = "raised"
    /\ UNCHANGED <<cm_files, cm_i, cm_rows, cm_csv, coreVars, macroVars, colVars, expVars>>

\* combine_memb.py:56: pd.concat of an empty list raises ValueError
CombineNothing ==
    /\ cm_state = "reading" /\ cm_i > Len(cm_files)
    /\ cm_rows = <<>>
    /\ cm_state' = "raised"
    /\ UNCHANGED <<cm_files, cm_i, cm_rows, cm_csv, coreVars, macroVars, colVars, expVars>>

\* combine_memb.py:56-65: concat, drop_duplicates, to_csv
CombineSave ==
    /\ cm_state = "reading" /\ cm_i > Len(cm_files)
    /\ cm_rows # <<>>
    /\ cm_csv' = [state |-> "written", out |-> DropDuplicates(Concat(cm_rows)),
                  run |-> "this", columns |-> ConcatColumns(cm_files)]
    /\ cm_state' = "saved"
    /\ UNCHANGED <<cm_files, cm_i, cm_rows, coreVars, macroVars, colVars, expVars>>

NextComb ==
    \/ CombineFile
    \/ CombineFileRaises
    \/ CombineNothing
    \/ CombineSave

SpecComb == InitComb /\ [][NextComb]_vars

\* ----------------------------------------- specification: export_results
\* export_results.py:32-406: the keys of QUERIES, in the order of the dict
QUERIES ==
    <<"uc1_q1_top10_concentration", "uc1_q2_hhi_concentration",
      "uc2_q1_debt_to_revenue_distribution", "uc2_q2_deleveraging_cycles",
      "uc2_q3_icr_rate_sensitivity", "uc3_q1_zombie_companies",
      "uc4_q2_revenue_volatility", "uc5_q1_sector_inflation_performance">>

\* export_results.py:434
total_count == Len(QUERIES)

\* a loop that ends at the first query that fails
AfterQueryError_Stops(i) == total_count + 1

\* export_results.py:421-423 and 438-441: export_query returns False and the
\* loop goes on with the next query
AfterQueryError(i) == i + 1

\* export_results.py:427-436
StartExp ==
    /\ ex_i = 1
    /\ ex_log = <<>>
    /\ success_count = 0
    /\ ex_out = <<>>

InitExp == StartExp /\ IdleCore /\ IdleMacro /\ IdleCols /\ IdleComb

\* export_results.py:415-420 and 439-440: the query runs and its CSV is saved
ExportQuerySaved ==
    /\ ex_i \in 1..total_count
    /\ ex_log' = Append(ex_log, [query |-> QUERIES[ex_i], result |-> "saved"])
    /\ success_count' = success_count + 1
    /\ ex_i' = ex_i + 1
    /\ UNCHANGED <<ex_out, coreVars, macroVars, colVars, combVars>>

\* export_results.py:421-423: read_sql_query or to_csv raises
ExportQueryError ==
    /\ ex_i \in 1..total_count
    /\ ex_log' = Append(ex_log, [query |-> QUERIES[ex_i], result |-> "error"])
    /\ ex_i' = AfterQueryError(ex_i)
    /\ UNCHANGED <<success_count, ex_out, coreVars, macroVars, colVars, combVars>>

\* export_results.py:443-459: the summary
ExportSummary ==
    /\ ex_i = total_count + 1
    /\ ex_out' = <<[total |-> total_count,
                    successful |-> success_count,
                    failed |-> total_count - success_count],
                   IF success_count = total_count
                   THEN "All queries exported successfully!"
                   ELSE "queries failed to export">>
    /\ ex_i' = total_count + 2
    /\ UNCHANGED <<ex_log, success_count, coreVars, macroVars, colVars, combVars>>

NextExp ==
    \/ ExportQuerySaved
    \/ ExportQueryError
    \/ ExportSummary

SpecExp == InitExp /\ [][NextExp]_vars

\* ------------------------------------------------------------ claims C9, C10
\* s is the text mk with blanks, and nothing else, around it
BlankWrapped(s, mk) ==
    \E i \in 0..Len(s) :
        /\ i + Len(mk) <= Len(s)
        /\ SubSeq(s, i + 1, i + Len(mk)) = mk
        /\ \A n \in (1..i) \cup ((i + Len(mk) + 1)..Len(s)) : s[n] = " "

IsNAInput(val) ==
    \/ val.k = "nan"
    \/ val.k = "str" /\ \E mk \in NAMarkers : BlankWrapped(val.s, mk)

\* C9: clean_value returns None for a missing value and for every value that
\* is, once the blanks around it are trimmed, one of the N/A markers '#N/A',
\* '--', '#N/A Requesting Data...', 'N/A' or the empty string; and whatever
\* the input, the value it returns is never a marker string.
C9_NaMapsToNone ==
    cv_out # Pending =>
        /\ IsNAInput(cv_in) => cv_out = None
        /\ ~(cv_out.k = "str" /\ cv_out.s \in NAMarkers)

\* C9 witness: a marker written inside blanks has been cleaned to None.
C9_Witness ==
    /\ cv_in.k = "str"
    /\ cv_in.s = <<" ", " ">> \o NA_REQUESTING \o <<" ">>
    /\ cv_out = None

IsDigitAt(s, i) == s[i] \in Digits

\* s is a string YYYY-MM-DD naming a day of the calendar
IsIsoDate(s) ==
    /\ Len(s) = 10
    /\ s[5] = "-" /\ s[8] = "-"
    /\ \A i \in {1, 2, 3, 4, 6, 7, 9, 10} : IsDigitAt(s, i)
    /\ LET y == 1000 * DigitVal(s[1]) + 100 * DigitVal(s[2])
                + 10 * DigitVal(s[3]) + DigitVal(s[4])
           m == 10 * DigitVal(s[6]) + DigitVal(s[7])
           d == 10 * DigitVal(s[9]) + DigitVal(s[10])
       IN  y >= 1 /\ m \in 1..12 /\ d >= 1 /\ d <= DaysInMonth(y, m)

\* the canonical string of a calendar date, written out digit by digit
Canonical(y, m, d) ==
    << DigitChar(y \div 1000), DigitChar((y \div 100) % 10),
       DigitChar((y \div 10) % 10), DigitChar(y % 10), "-",
       DigitChar(m \div 10), DigitChar(m % 10), "-",
       DigitChar(d \div 10), DigitChar(d % 10) >>

\* the case names a day of the calendar
NamesDate(c) == c.kind \in {"dt", "text"} /\ ValidDate(c.y, c.m, c.d)

\* the formats an earlier format of the list shadows: d/m/Y behind m/d/Y and
\* m-d-Y behind d-m-Y
Shadowed(f) == f \in {3, 6}

NeverNonIso == pd_out = None \/ (pd_out.k = "str" /\ IsIsoDate(pd_out.s))

\* C10 as stated: every date written in any of the six formats, or held as
\* a datetime, comes back as the canonical string of that same date; missing
\* and unparsable input gives None; no other string is ever returned.
C10_Original ==
    pd_out # Pending =>
        /\ NamesDate(pd_in) =>
               pd_out = StrCell(Canonical(pd_in.y, pd_in.m, pd_in.d))
        /\ ~NamesDate(pd_in) => pd_out = None
        /\ NeverNonIso

\* C10 as amended: the same, except that a date written d/m/Y or m-d-Y is
\* promised to come back as itself only when its day is above 12 or equals
\* its month (otherwise the earlier format m/d/Y or d-m-Y reads it first).
C10_ParsesToIso ==
    pd_out # Pending =>
        /\ ( /\ NamesDate(pd_in)
             /\ pd_in.kind = "text" /\ Shadowed(pd_in.f)
                    => (pd_in.d > 12 \/ pd_in.d = pd_in.m) )
           => pd_out = StrCell(Canonical(pd_in.y, pd_in.m, pd_in.d))
        /\ ~NamesDate(pd_in) => pd_out = None
        /\ NeverNonIso

\* C10 witness: an unpadded d/m/Y date with a day above 12, written inside
\* blanks, has been parsed to its canonical string.
C10_Witness ==
    /\ pd_in.kind = "text" /\ pd_in.f = 3 /\ pd_in.d = 29 /\ pd_in.m = 2
    /\ pd_in.y = 2024 /\ ~pd_in.pad /\ pd_in.ws
    /\ pd_out = StrCell(Canonical(2024, 2, 29))

\* -------------------------------------------------------------- claim C5
Printed(entry) == \E k \in 1..Len(fd_log) : fd_log[k] = entry

\* C5 as stated: once a workbook of fix_dates has failed, no later workbook
\* of the list is processed.
C5_Original ==
    \A k \in 1..Len(fd_log) :
        fd_log[k][1] = "Error" =>
            \A n \in (k + 1)..Len(fd_log) : fd_log[n][1] # "Processing"

\* C5 as amended: a failure of one workbook is reported and skips that
\* workbook only; every workbook of the list before the loop's position has
\* been processed, saved when it could be and reported when it raised, and
\* the run ends by printing that all files were processed.
C5_ErrorSkipsOneWorkbook ==
    /\ fd_i \in 1..(Len(FixFiles) + 2)
    /\ \A i \in 1..Len(FixFiles) :
           i < fd_i =>
               /\ Printed(<<"Processing", i>>)
               /\ Raises(fd_books[i]) => Printed(<<"Error", i>>)
               /\ ~Raises(fd_books[i]) => Printed(<<"Saved", i>>)
    /\ fd_i = Len(FixFiles) + 2 => fd_log[Len(fd_log)][1] = "All files processed"

\* C5 witness: the first workbook was missing, the second was fixed after
\* it, and the run has ended.
C5_Witness ==
    /\ fd_i = Len(FixFiles) + 2
    /\ fd_books[1].state = "missing"
    /\ Printed(<<"Error", 1>>)
    /\ Printed(<<"Saved", 2>>)
    /\ fd_books[2].colA[7] = DateCell(2005, 3, 31)

\* ------------------------------------------------------ claims C1, C2, C6, C8
RowSet(rows) == {rows[i] : i \in 1..Len(rows)}

\* the table the import of ld_call writes, in database d
Target(d) == d[TableOf(ld_call.fn)]

\* C1: the second run of any of the six imports over the same input leaves
\* its target table with exactly the rows, keys and values, it held after the
\* first run: none added, none lost, none changed.
C1_SecondRunChangesNothing ==
    ld_phase = "twice" =>
        /\ RowSet(Target(macroalpha_db)) = RowSet(Target(ld_first.db))
        /\ Len(Target(macroalpha_db)) = Len(Target(ld_first.db))

\* C1 witness: financials whose file named one period twice were imported
\* twice, and the one row the first run left is the one row there is.
C1_Witness ==
    /\ ld_phase = "twice"
    /\ ld_call.fn = "import_financials"
    /\ ld_first.count = 2
    /\ Len(ld_first.db.financials) = 1
    /\ Len(macroalpha_db.financials) = 1

\* C2: whatever was loaded, duplicate rows included, index_membership holds
\* at most one row per (index, company, as-of date) and financials at most one
\* row per (company, period end date, period type).
C2_OneRowPerKey ==
    /\ \A i, j \in 1..Len(macroalpha_db.index_membership) :
           LET a == macroalpha_db.index_membership[i]
               b == macroalpha_db.index_membership[j]
           IN  (/\ a.index_id = b.index_id
                /\ a.company_id = b.company_id
                /\ a.as_of_date = b.as_of_date) => i = j
    /\ \A i, j \in 1..Len(macroalpha_db.financials) :
           LET a == macroalpha_db.financials[i]
               b == macroalpha_db.financials[j]
           IN  (/\ a.company_id = b.company_id
                /\ a.period_end_date = b.period_end_date
                /\ a.period_type = b.period_type) => i = j

\* C2 witness: a membership file that names one company on one day twice,
\* the day written in two formats, was imported twice and left one row.
C2_Witness ==
    /\ ld_phase = "twice"
    /\ ld_call.fn = "import_index_membership"
    /\ Len(ld_call.file.rows) = 2
    /\ ld_call.file.rows[1].as_of_date # ld_call.file.rows[2].as_of_date
    /\ ld_first.count = 2
    /\ Len(macroalpha_db.index_membership) = 1

\* a companies row of database d has this ticker
HasCompany(d, ticker) ==
    \E i \in 1..Len(d.companies) : d.companies[i].ticker = ticker

\* the cells of row at the columns of S, from column c on
RECURSIVE Pick(_, _, _)
Pick(row, S, c) ==
    IF c > Len(row) THEN <<>>
    ELSE (IF c \in S THEN <<row[c]>> ELSE <<>>) \o Pick(row, S, c + 1)

\* A wide export without the blocks (per columns each) whose ticker matches
\* no company of d and without the data rows whose date cannot be parsed.
WideWithout(df, per, d) ==
    LET block(c) == 2 + per * ((c - 2) \div per)
        keep == {1} \cup {c \in 2..Width(df) :
                             /\ df[4][block(c)].k = "str"
                             /\ HasCompany(d, Strip(df[4][block(c)].s))}
        dated == SelectSeq(SubSeq(df, 7, Len(df)),
                           LAMBDA row : ParseBloombergDate(row[1]) # None)
        rows == SubSeq(df, 1, 6) \o dated
    IN  [i \in 1..Len(rows) |-> Pick(rows[i], keep, 1)]

\* The file of ld_call without the source rows C6 is about.
WithoutBadRows ==
    LET file == ld_call.file
        d == ld_base.db
    IN  IF file.state = "missing" THEN file
        ELSE IF ld_call.fn = "import_index_membership"
        THEN [file EXCEPT !.rows =
                 SelectSeq(@, LAMBDA row :
                     /\ HasCompany(d, Strip(StrAny(row.Ticker)))
                     /\ ParseBloombergDate(row.as_of_date) # None)]
        ELSE IF ld_call.fn = "import_prices_weekly"
        THEN [file EXCEPT !.df = WideWithout(@, 2, d)]
        ELSE [file EXCEPT !.df = WideWithout(@, fields_per_ticker, d)]

\* what the import of ld_call gives on the file without those rows
OnGoodRows ==
    Call(ld_call.fn, ld_call.arg, ld_base.db, ld_base.map, WithoutBadRows)

\* C6: in import_index_membership, import_prices_weekly and
\* import_financials the source rows whose ticker matches no company or whose
\* date cannot be parsed have no effect at all: the import ends as it ends on
\* the same file without them, with the same rows stored, the same count and
\* the same outcome, so they insert nothing, raise nothing and stop no other
\* row; a file of such rows only is imported without an error and stores
\* nothing.
C6_BadRowsSkipped ==
    (/\ ld_phase \in {"once", "failed"}
     /\ ld_call.fn \in {"import_index_membership", "import_prices_weekly",
                        "import_financials"}) =>
        /\ OnGoodRows.db = ld_first.db
        /\ OnGoodRows.err = ld_first.err
        /\ OnGoodRows.count = ld_first.count
        /\ OnGoodRows.map = id_map
        /\ (ld_call.file.state = "ok" /\ ld_call.fn = "import_index_membership"
            /\ WithoutBadRows.rows = <<>>) =>
               ~ld_first.err /\ ld_first.db = ld_base.db

\* C6 witness: a price file with a block for a ticker that is no company and
\* a row whose date is no date, and with one good row, which was stored.
C6_Witness ==
    /\ ld_phase = "once"
    /\ ld_call.fn = "import_prices_weekly"
    /\ Len(ld_call.file.df) = 8 /\ Width(ld_call.file.df) = 5
    /\ Len(WithoutBadRows.df) = 7 /\ Width(WithoutBadRows.df) = 3
    /\ Len(ld_base.db.prices_weekly) = 0
    /\ Len(macroalpha_db.prices_weekly) = 1

\* C8 as stated: every row of index_membership, prices_weekly and financials
\* carries the company_id of the companies row whose ticker is the ticker the
\* source named for it (src_ticker records that ticker; it is no column of
\* the table).
C8_Original ==
    \A tbl \in {"index_membership", "prices_weekly", "financials"} :
        \A i \in 1..Len(macroalpha_db[tbl]) :
            \E j \in 1..Len(macroalpha_db.companies) :
                /\ macroalpha_db.companies[j].company_id
                       = macroalpha_db[tbl][i].company_id
                /\ macroalpha_db.companies[j].ticker
                       = macroalpha_db[tbl][i].src_ticker

\* ------------------------------------------------------ claims C3, C4, C7
\* the order of the steps as C3 states it
C3_Order ==
    << "create_database", "import_companies", "import_index_membership",
       "import_prices_weekly", "import_financials ANNUAL",
       "import_financials QUARTERLY", "import_macro US", "import_macro GB",
       "import_macro DE", "import_macro JP", "import_macro CN",
       "import_interest_rates", "summary" >>

Place(step) == CHOOSE k \in 1..Len(C3_Order) : C3_Order[k] = step

\* the steps main has run, without those it passed over
Executed == SelectSeq(etl_log, LAMBDA e : e.result # "skipped")

\* C3: the steps of one run of main are run in the stated order, each at
\* most once, and the step that is to start next comes after every step that
\* has run.
C3_StepsInOrderOnce ==
    /\ \A i \in 1..Len(Executed) :
           \E k \in 1..Len(C3_Order) : C3_Order[k] = Executed[i].step
    /\ \A i, j \in 1..Len(Executed) :
           i < j => Place(Executed[i].step) < Place(Executed[j].step)
    /\ etl_pc \in 1..Len(Steps) =>
           \A i \in 1..Len(Executed) :
               Place(Executed[i].step) < Place(Steps[etl_pc])

\* C3 witness: a run in which every file was found has run all thirteen
\* steps and has ended.
C3_Witness ==
    /\ etl_pc = Ended
    /\ Len(Executed) = Len(C3_Order)
    /\ \A k \in 1..Len(C3_Order) :
           Executed[k].step = C3_Order[k] /\ Executed[k].result = "ok"

\* C4: a step of main that fails is the last step of the run: the run goes
\* to its end without another step, and 'ETL Complete' is not printed.
C4_FatalErrorAborts ==
    \A i \in 1..Len(etl_log) :
        etl_log[i].result = "failed" =>
            /\ i = Len(etl_log)
            /\ etl_pc \in {Finally, Ended}
            /\ \A n \in 1..Len(etl_out) : etl_out[n] # "ETL Complete"

\* C4 witness: the membership file lacked a required column; the run ended
\* after three steps with the error printed and the companies stored.
C4_Witness ==
    /\ etl_pc = Ended
    /\ etl_conn = "closed"
    /\ Len(etl_log) = 3
    /\ etl_log[3] = [step |-> "import_index_membership", result |-> "failed",
                     db |-> macroalpha_db]
    /\ etl_out = <<"Error">>
    /\ Len(macroalpha_db.companies) = 2

\* C7: when a step of main has failed, the rows that the steps completed
\* before it had committed are all in the database, at the end of the run
\* too.
C7_CommittedRowsStay ==
    (etl_log # <<>> /\ etl_log[Len(etl_log)].result = "failed") =>
        \A i \in 1..(Len(etl_log) - 1) :
            \A tbl \in Tables :
                RowSet(etl_log[i].db[tbl]) \subseteq RowSet(macroalpha_db[tbl])

\* C7 witness: the price file was missing; the run has ended and the
\* companies and the membership rows of the two steps before are there.
C7_Witness ==
    /\ etl_pc = Ended
    /\ etl_log[Len(etl_log)].step = "import_prices_weekly"
    /\ etl_log[Len(etl_log)].result = "failed"
    /\ Len(etl_log[3].db.index_membership) = 2
    /\ Len(macroalpha_db.index_membership) = 2
    /\ Len(macroalpha_db.companies) = 2

\* ------------------------------------------------------------------ claim C11
\* the first day of the month k months before December 2024
MonthsBefore(k) ==
    LET t == 2024 * 12 + 11 - k
    IN  IsoChars(t \div 12, (t % 12) + 1, 1)

\* C11: in the calendar of import_macro every column 2+k built so far holds
\* the first day of the month exactly k months before 2024-12, its month is
\* in 1..12, two columns never hold the same date, and when the loop is over
\* every column from 2 to the last one of the workbook has a date.
C11_CalendarCountsBack ==
    /\ \A col \in DOMAIN date_map :
           /\ date_map[col] = MonthsBefore(col - 2)
           /\ DigitsToNat(SubSeq(date_map[col], 6, 7)) \in 1..12
    /\ \A c1, c2 \in DOMAIN date_map : date_map[c1] = date_map[c2] => c1 = c2
    /\ DOMAIN date_map = 2..(1 + col_offset)
    /\ col_offset <= num_months

\* C11 witness: the loop is over on a workbook that goes back past two
\* Januaries; column 2 holds December 2024 and column 27 November 2022.
C11_Witness ==
    /\ num_months > 25 /\ col_offset = num_months
    /\ date_map[2] = <<"2", "0", "2", "4", "-", "1", "2", "-", "0", "1">>
    /\ date_map[14] = <<"2", "0", "2", "3", "-", "1", "2", "-", "0", "1">>
    /\ date_map[27] = <<"2", "0", "2", "2", "-", "1", "1", "-", "0", "1">>

\* ------------------------------------------------------------ claims C12, C19
\* the label of column c of field_row as the loop reads it
LabelAt(c) ==
    IF c < Len(pw_field_row) THEN StripOr(Iloc(pw_field_row, c), <<>>) ELSE <<>>

\* the block whose columns the entry of ticker holds: the last one read so far
BlockOf(ticker) ==
    CHOOSE c \in 1..pw_col :
        /\ c % 2 = 1 /\ c < pw_col
        /\ StripOr(Iloc(pw_ticker_row, c), <<>>) = ticker
        /\ \A c2 \in (c + 1)..(pw_col - 1) :
               c2 % 2 = 1 => StripOr(Iloc(pw_ticker_row, c2), <<>>) # ticker

\* the blocks read so far that name a ticker
BlocksRead ==
    {c \in 1..(pw_col - 1) :
        /\ c % 2 = 1 /\ c < Len(pw_ticker_row)
        /\ Iloc(pw_ticker_row, c) # NaN}

\* C12: every ticker block read so far has an entry in ticker_cols (absent
\* labels never stop the mapping); its two columns are inside {c, c+1} for
\* its block c; the price column is c when neither label contains 'Price'
\* and the return column is c+1 when neither contains 'Return'.
C12_FallbackColumns ==
    /\ \A c \in BlocksRead :
           \E i \in 1..Len(pw_ticker_cols) :
               pw_ticker_cols[i].key = StripOr(Iloc(pw_ticker_row, c), <<>>)
    /\ \A i \in 1..Len(pw_ticker_cols) :
           LET c == BlockOf(pw_ticker_cols[i].key)
               cols == pw_ticker_cols[i].value
           IN  /\ cols.price_col \in {c, c + 1}
               /\ cols.return_col \in {c, c + 1}
               /\ (~Contains(LabelAt(c), W_PRICE) /\ ~Contains(LabelAt(c + 1), W_PRICE))
                      => cols.price_col = c
               /\ (~Contains(LabelAt(c), W_RETURN) /\ ~Contains(LabelAt(c + 1), W_RETURN))
                      => cols.return_col = c + 1

\* C12 witness: the loop is over; the block at column 1 has no label at all
\* and got the columns 1 and 2, and the block at column 3, the last column
\* of the sheet, got 3 and 4.
C12_Witness ==
    /\ Len(pw_ticker_row) = 4 /\ pw_col = 5
    /\ pw_field_row[2] = NaN /\ pw_field_row[3] = NaN
    /\ pw_field_row[4] = StrCell(<<"V", "o", "l", "u", "m", "e">>)
    /\ pw_ticker_cols =
          << [key |-> T_A, value |-> [price_col |-> 1, return_col |-> 2]],
             [key |-> T_B, value |-> [price_col |-> 3, return_col |-> 4]] >>

\* C19 as stated: the price column and the return column of every ticker
\* block are two different columns.
C19_Original ==
    \A i \in 1..Len(pw_ticker_cols) :
        pw_ticker_cols[i].value.price_col # pw_ticker_cols[i].value.return_col

\* ------------------------------------------------------------ claims C13, C14
\* the table written by this run, without the places of the rows
Snapshot == [i \in 1..Len(cm_csv.out) |-> cm_csv.out[i].row]

\* the year of the leftmost 20xx in a file name
FirstYear(name) ==
    LET at == {i \in 1..(Len(name) - 3) :
                 /\ SubSeq(name, i, i + 1) = <<"2", "0">>
                 /\ name[i + 2] \in Digits /\ name[i + 3] \in Digits}
        i == CHOOSE k \in at : \A j \in at : k <= j
    IN  SubSeq(name, i, i + 3)

\* every row carries the index and the year-end date of its file
C13_FromFileName ==
    \A i \in 1..Len(Snapshot) :
        /\ Snapshot[i].index_id = SubSeq(Snapshot[i].src_file, 1, 3)
        /\ Snapshot[i].as_of_date =
               FirstYear(Snapshot[i].src_file) \o <<"-", "1", "2", "-", "3", "1">>

\* no row has an empty Ticker
C13_NoEmptyTicker ==
    \A i \in 1..Len(Snapshot) :
        Snapshot[i].Ticker # <<>>

\* no two rows share (index_id, as_of_date, Ticker)
C13_OneRowPerKey ==
    \A i, j \in 1..Len(Snapshot) : SameKey(Snapshot[i], Snapshot[j]) => i = j

\* of the rows read with one key, a row of the earliest file is the one kept,
\* and every key read is in the table
C13_EarliestKept ==
    \A r \in {Concat(cm_rows)[n] : n \in 1..Len(Concat(cm_rows))} :
        \E i \in 1..Len(Snapshot) :
            /\ SameKey(Snapshot[i], r)
            /\ ~LessStr(r.src_file, Snapshot[i].src_file)

\* C13 as stated: the table the consolidator saves has, in every row, the
\* index_id and the <year>-12-31 of its file name; no row with an empty
\* Ticker; one row per (index_id, as_of_date, Ticker), the one of the
\* earliest file.
C13_Original ==
    cm_state = "saved" =>
        /\ C13_FromFileName
        /\ C13_NoEmptyTicker
        /\ C13_OneRowPerKey
        /\ C13_EarliestKept

\* a file the consolidator cannot take: no 20xx in its name, or no column
\* whose stripped name is Ticker
BadExport(f) ==
    \/ \A i \in 1..Len(f.name) : ~YearAt(f.name, i)
    \/ \A i \in 1..Len(f.columns) : Strip(f.columns[i]) # H_TICKER

\* C14: when one of the files has no year in its name or no Ticker column,
\* the loop never gets past that file, nothing is saved, and the snapshot
\* file is as it was before the run (missing, or the one of an earlier run);
\* once the loop has reached the file the script has raised.
C14_BadFileAbortsBeforeWriting ==
    \A j \in 1..Len(cm_files) :
        BadExport(cm_files[j]) =>
            /\ cm_i <= j
            /\ cm_state # "saved"
            /\ cm_csv \in {Missing, OldSnapshot}
            /\ (cm_i = j /\ Len(cm_rows) = j - 1) => ENABLED CombineFileRaises \/ cm_state = "raised"

\* C14 witness: the second file has no Ticker column; the first one was read,
\* the script has raised, and the snapshot of the earlier run is untouched.
C14_Witness ==
    /\ Len(cm_files) = 2 /\ cm_i = 2 /\ Len(cm_rows) = 1
    /\ Len(cm_rows[1]) > 0
    /\ ColumnOf(cm_files[2].columns, H_TICKER) = 0
    /\ FindYear(cm_files[2].name) # 0
    /\ cm_state = "raised"
    /\ cm_csv = OldSnapshot

\* ------------------------------------------------------------------ claim C15
\* the queries that ended with the given result
Ended_With(result) == {i \in 1..Len(ex_log) : ex_log[i].result = result}

\* C15: the exporter calls export_query for the queries of the catalog in
\* catalog order, each once, whether or not an earlier query failed; the
\* summary comes after all of them, its successful and failed counts are the
\* numbers of queries saved and failed and add up to the total, and it says
\* 'All queries exported successfully' exactly when no query failed.
C15_EveryQueryOnce ==
    /\ Len(ex_log) <= total_count
    /\ \A i \in 1..Len(ex_log) : ex_log[i].query = QUERIES[i]
    /\ success_count = Cardinality(Ended_With("saved"))
    /\ ex_out # <<>> =>
          /\ Len(ex_log) = total_count
          /\ ex_out[1].successful = Cardinality(Ended_With("saved"))
          /\ ex_out[1].failed = Cardinality(Ended_With("error"))
          /\ ex_out[1].successful + ex_out[1].failed = ex_out[1].total
          /\ ex_out[1].total = 8
          /\ (ex_out[2] = "All queries exported successfully!")
                <=> (Ended_With("error") = {})

\* C15 witness: the second query failed, the six after it were run, and the
\* summary reports 7 successful and 1 failed.
C15_Witness ==
    /\ ex_out # <<>>
    /\ Ended_With("error") = {2}
    /\ ex_out[1] = [total |-> 8, successful |-> 7, failed |-> 1]
    /\ ex_out[2] = "queries failed to export"

\* ------------------------------------------------------------ claims C16, C17
\* the rows of column A that hold the periods of a workbook
DataRows(period_type) == IF period_type = "ANNUAL" THEN 7..26 ELSE 7..86

\* C16: a step of fix_dates changes, in column A of any workbook, only cells
\* of the data range of that workbook: rows 7-26 of an ANNUAL one, rows 7-86
\* of a QUARTERLY one; the header in row 6 and every row outside the range
\* keep their value.
C16_OnlyDataRowsWritten ==
    [][\A i \in 1..Len(FixFiles) :
          fd_books[i].state = "ok" =>
              \A r \in SheetRows \ DataRows(FixFiles[i].period_type) :
                  fd_books'[i].colA[r] = fd_books[i].colA[r]]_vars

\* C16 witness: an annual and a quarterly workbook full of other text were
\* fixed: rows 26 and 86 hold a date, rows 6, 27 and 87 what they held.
C16_Witness ==
    /\ fd_i > 2
    /\ fd_books[1].state = "ok" /\ fd_books[2].state = "ok"
    /\ fd_books[1].colA[5] = JunkCell /\ fd_books[1].colA[6] = HeaderCell
    /\ fd_books[1].colA[26].k = "dt" /\ fd_books[1].colA[27] = JunkCell
    /\ fd_books[2].colA[6] = HeaderCell
    /\ fd_books[2].colA[86].k = "dt" /\ fd_books[2].colA[87] = JunkCell

\* the date the module docstring of fix_dates gives row r
PeriodEnd(period_type, r) ==
    IF period_type = "ANNUAL" THEN DateCell(2005 + (r - 7), 12, 31)
    ELSE LET month == 3 * (((r - 7) % 4) + 1)
         IN  DateCell(2005 + ((r - 7) \div 4), month,
                      IF month \in {3, 12} THEN 31 ELSE 30)

\* a date as a number that grows with the calendar
DayNumber(cell) == (cell.y * 12 + cell.m) * 31 + cell.d

\* C17: in every workbook that fix_date_column has saved, row r of the data
\* range holds the period end of its place: 31 December of 2005+(r-7) in an
\* ANNUAL workbook (2005 to 2024), the end of quarter (r-7) mod 4 of year
\* 2005+(r-7) div 4 in a QUARTERLY one (2005-Q1 to 2024-Q4); the dates
\* ascend; and fix_date_column applied to the column again gives the same
\* column.
C17_PeriodEndsInOrder ==
    \A i \in 1..Len(FixFiles) :
        (i < fd_i /\ fd_books[i].state = "ok") =>
            LET pt == FixFiles[i].period_type
                colA == fd_books[i].colA
            IN  /\ \A r \in DataRows(pt) : colA[r] = PeriodEnd(pt, r)
                /\ \A r \in DataRows(pt) \ {7} :
                       DayNumber(colA[r - 1]) < DayNumber(colA[r])
                /\ colA[7].y = 2005
                /\ \A r \in DataRows(pt) : (r + 1 \notin DataRows(pt)) =>
                       colA[r] = DateCell(2024, 12, 31)
                /\ FixDateColumn(colA, pt) = colA

\* C17 witness: a quarterly workbook was fixed: row 7 holds 31 March 2005,
\* row 8 30 June 2005, row 10 31 December 2005 and row 86 31 December 2024.
C17_Witness ==
    /\ fd_i > 2 /\ fd_books[2].state = "ok"
    /\ fd_books[2].colA[7] = DateCell(2005, 3, 31)
    /\ fd_books[2].colA[8] = DateCell(2005, 6, 30)
    /\ fd_books[2].colA[10] = DateCell(2005, 12, 31)
    /\ fd_books[2].colA[86] = DateCell(2024, 12, 31)

\* ------------------------------------------------------------------ claim C18
\* C18 as stated: after import_companies, every ticker of the dict it returned
\* is mapped to the company_id of the companies row with that ticker.
C18_Original ==
    (ld_phase \in {"companies", "twice"} /\ ld_call.fn = "import_companies") =>
        \A ticker \in DOMAIN id_map :
            id_map[ticker] = SelectCompanyId(macroalpha_db.companies, ticker)

FinDf == ld_call.file.df
FinDataRows == 6..(Len(FinDf) - 1)
FinBlocks ==
    {b \in 1..(Width(FinDf) - 1) :
        /\ (b - 1) % fields_per_ticker = 0
        /\ b + fields_per_ticker <= Width(FinDf)
        /\ Cell(FinDf, 3, b) # NaN}

\* the columns of block b whose label field_map knows
FinMapped(b) ==
    {c \in b..(b + fields_per_ticker - 1) :
        /\ Cell(FinDf, 5, c) # NaN
        /\ FieldMap(Strip(StrOf(Cell(FinDf, 5, c)))) # ""}

\* the rows stored for the ticker of block b with the date of data row r
FinStored(b, r) ==
    {i \in 1..Len(macroalpha_db.financials) :
        /\ macroalpha_db.financials[i].src_ticker = Strip(StrOf(Cell(FinDf, 3, b)))
        /\ StrCell(macroalpha_db.financials[i].period_end_date)
               = ParseBloombergDate(Cell(FinDf, r, 0))}

\* data row r gives block b a value that is not null
FinHasValue(b, r) ==
    \E c \in FinMapped(b) : CleanValue(Cell(FinDf, r, c)) # None

\* import_financials has run once on a workbook, on a database that held no
\* financials and knows the companies of id_map
FinImported ==
    /\ ld_phase = "once" /\ ld_call.fn = "import_financials"
    /\ ld_call.file.state = "ok" /\ ~ld_first.err

\* C21: after import_financials, for every ticker block whose ticker is a
\* company and every data row with a date, the table holds no row for that
\* ticker and date when every mapped field of every row of that date cleans
\* to null (as it does when the block has no recognised label), and exactly
\* one row when a mapped field of such a row is not null.
C21_RowOnlyWithAValue ==
    FinImported =>
        \A b \in FinBlocks : \A r \in FinDataRows :
            (/\ ParseBloombergDate(Cell(FinDf, r, 0)) # None
             /\ HasCompany(ld_base.db, Strip(StrOf(Cell(FinDf, 3, b))))) =>
                Cardinality(FinStored(b, r)) =
                    IF \E r2 \in FinDataRows :
                          /\ ParseBloombergDate(Cell(FinDf, r2, 0))
                                 = ParseBloombergDate(Cell(FinDf, r, 0))
                          /\ FinHasValue(b, r2)
                    THEN 1 ELSE 0

\* C21 witness: a workbook whose labels field_map does not know, with a
\* value in every row, was imported for a known company and stored nothing.
C21_Witness ==
    /\ FinImported
    /\ Cell(FinDf, 5, 1) = FinLabelsUnknown[1]
    /\ HasCompany(ld_base.db, T_A)
    /\ FinDataRows # {} /\ FinBlocks # {}
    /\ macroalpha_db.financials = <<>>
    /\ ld_first.count = 0

\* the value data row r gives column f of the ticker of block b
FinValue(b, r, f) ==
    LET cols == {c \in FinMapped(b) : FieldMap(Strip(StrOf(Cell(FinDf, 5, c)))) = f}
    IN  IF cols = {} THEN None
        ELSE CleanValue(Cell(FinDf, r, CHOOSE c \in cols : \A c2 \in cols : c2 <= c))

\* the data rows with the date of data row r
FinSameDate(r) ==
    {r2 \in FinDataRows :
        ParseBloombergDate(Cell(FinDf, r2, 0)) = ParseBloombergDate(Cell(FinDf, r, 0))}

\* C22 as stated: when data rows resolve to the same key, the stored row
\* holds exactly the values of the last of them.
C22_Original ==
    FinImported =>
        \A b \in FinBlocks : \A r \in FinDataRows :
            (\A r2 \in FinSameDate(r) : r2 <= r) =>
                \A i \in FinStored(b, r) : \A f \in FieldNames :
                    macroalpha_db.financials[i][f] = FinValue(b, r, f)

\* C22: when data rows of import_financials resolve to the same (company,
\* period end date, period type), the stored row holds exactly the values of
\* the last of them that has a mapped field that is not null (replace, not
\* merge: a field that is null in that row is null in the stored row); a
\* later row whose mapped fields are all null is skipped and changes nothing.
C22_LastValuedRowReplaces ==
    FinImported =>
        \A b \in FinBlocks : \A r \in FinDataRows :
            (/\ FinHasValue(b, r)
             /\ \A r2 \in FinSameDate(r) : FinHasValue(b, r2) => r2 <= r) =>
                \A i \in FinStored(b, r) : \A f \in FieldNames :
                    macroalpha_db.financials[i][f] = FinValue(b, r, f)

\* C22 witness: the rows (revenue 5, no EBITDA) and (no revenue, EBITDA 7) of
\* one date were imported for a known company: the stored row has EBITDA 7
\* and a null revenue.
C22_Witness ==
    /\ FinImported
    /\ Len(FinDf) = 8
    /\ CleanValue(Cell(FinDf, 6, 1)) = CleanValue(StrCell(<<"5">>))
    /\ Iloc(FinDf, 7) = <<FinRowEbitda.date>> \o FinRowEbitda.cells
    /\ Len(macroalpha_db.financials) = 1
    /\ macroalpha_db.financials[1].revenue = None
    /\ macroalpha_db.financials[1].ebitda = CleanValue(StrCell(<<"7">>))

\* -------------------------------------------------------------- claim C23

\* the rows of period type t in the financials table of database db
OfPeriodType(db, t) ==
    IF db = <<>> THEN <<>>
    ELSE SelectSeq(db.financials, LAMBDA x : x.period_type = t)

\* the positions of the log of main at which the quarterly import ran
QuarterlyRuns ==
    {k \in 2..Len(etl_log) :
        /\ etl_log[k].step = "import_financials QUARTERLY"
        /\ etl_log[k].result # "skipped"}

\* C23: the quarterly import that main runs after the annual import leaves
\* every ANNUAL row of financials as it was; the two workbooks of a run hold
\* the same companies and dates, and the QUARTERLY row of each is stored
\* beside the ANNUAL row of that company and date.
C23_AnnualRowsUntouched ==
    \A k \in QuarterlyRuns :
        /\ OfPeriodType(etl_log[k].db, "ANNUAL")
                = OfPeriodType(etl_log[k - 1].db, "ANNUAL")
        /\ etl_log[k].result = "ok" =>
                \A i \in 1..Len(OfPeriodType(etl_log[k - 1].db, "ANNUAL")) :
                    LET a == OfPeriodType(etl_log[k - 1].db, "ANNUAL")[i]
                        quarterly == OfPeriodType(etl_log[k].db, "QUARTERLY")
                    IN  \E q \in 1..Len(quarterly) :
                            /\ quarterly[q].company_id = a.company_id
                            /\ quarterly[q].period_end_date = a.period_end_date

\* C23 witness: after the quarterly import the table holds an ANNUAL and a
\* QUARTERLY row of the same company and date.
C23_Witness ==
    \E k \in QuarterlyRuns :
        \E a \in 1..Len(etl_log[k].db.financials) :
            \E q \in 1..Len(etl_log[k].db.financials) :
                LET fin == etl_log[k].db.financials
                IN  /\ fin[a].period_type = "ANNUAL"
                    /\ fin[q].period_type = "QUARTERLY"
                    /\ fin[a].company_id = fin[q].company_id
                    /\ fin[a].period_end_date = fin[q].period_end_date
                    /\ etl_log[k - 1].step = "import_financials ANNUAL"
                    /\ \E j \in 1..Len(etl_log[k - 1].db.financials) :
                            etl_log[k - 1].db.financials[j] = fin[a]

\* -------------------------------------------------------------- claim C24

\* the words of a name, split at the blanks
RECURSIVE WordsOf(_, _)
WordsOf(s, word) ==
    IF s = <<>> THEN <<word>>
    ELSE IF Head(s) = " " THEN <<word>> \o WordsOf(Tail(s), <<>>)
    ELSE WordsOf(Tail(s), Append(word, Head(s)))

\* the categories the words of a name stand for
CategoriesOf(name) ==
    {NameWords[i].c : i \in {j \in 1..Len(NameWords) :
        \E k \in 1..Len(WordsOf(name, <<>>)) :
            WordsOf(name, <<>>)[k] = NameWords[j].w}}

Priority == <<"GDP", "CPI", "Employment", "Housing", "Rates", "Trade", "Other">>

\* C24: import_macro gives an indicator the first category, in the order
\* GDP, CPI, Employment, Housing, Rates, Trade, that one of the key words in
\* its name stands for, and Other when there is none.
C24_FirstMatchInPriority ==
    category # "none" =>
        LET found == CategoriesOf(cat_name) \cup {"Other"}
            first == CHOOSE k \in 1..Len(Priority) :
                        /\ Priority[k] \in found
                        /\ \A j \in 1..(k - 1) : Priority[j] \notin found
        IN  category = Priority[first]

\* C24 witness: 'Unemployment Rate' was put under Employment.
C24_Witness ==
    /\ cat_name = <<"U", "n", "e", "m", "p", "l", "o", "y", "m", "e", "n", "t", " ", "R", "a", "t", "e">>
    /\ category = "Employment"

\* 'Import Price' was put under CPI
C24_ImportPrice ==
    /\ cat_name = <<"I", "m", "p", "o", "r", "t", " ", "P", "r", "i", "c", "e">>
    /\ category = "CPI"

\* -------------------------------------------------------------- claim C25

\* a date text a/b/Y or a-b-Y of the model: its two leading numbers
SlashText(c) ==
    c.kind = "text" /\ Formats[c.f].sep = "/" /\ Formats[c.f].order[3] = "Y"
DashText(c) ==
    c.kind = "text" /\ Formats[c.f].sep = "-" /\ Formats[c.f].order[3] = "Y"
FirstNumber(c) == IF Formats[c.f].order[1] = "m" THEN c.m ELSE c.d
SecondNumber(c) == IF Formats[c.f].order[2] = "m" THEN c.m ELSE c.d

\* the result for month m and day d of year y
ReadAs(y, m, d) == StrCell(Canonical(y, m, d))

\* C25: parse_bloomberg_date tries its formats in the order of the list and
\* the first match wins: a/b/Y is read as month a, day b whenever that is a
\* date (so whenever both numbers are at most 12) and as day a, month b only
\* when a is above 12; a-b-Y is read as day a, month b whenever that is a
\* date and as month a, day b only when b is above 12.
C25_EarlierFormatWins ==
    pd_out # Pending =>
        LET a == FirstNumber(pd_in)
            b == SecondNumber(pd_in)
            y == pd_in.y
        IN  /\ SlashText(pd_in) =>
                /\ (a <= 12 /\ b <= 12) => pd_out = ReadAs(y, a, b)
                /\ ValidDate(y, a, b) => pd_out = ReadAs(y, a, b)
                /\ (pd_out # None /\ pd_out # ReadAs(y, a, b)) =>
                        (a > 12 /\ pd_out = ReadAs(y, b, a))
                /\ (a > 12 /\ ValidDate(y, b, a)) => pd_out = ReadAs(y, b, a)
            /\ DashText(pd_in) =>
                /\ (a <= 12 /\ b <= 12) => pd_out = ReadAs(y, b, a)
                /\ ValidDate(y, b, a) => pd_out = ReadAs(y, b, a)
                /\ (pd_out # None /\ pd_out # ReadAs(y, b, a)) =>
                        (b > 12 /\ pd_out = ReadAs(y, a, b))
                /\ (b > 12 /\ ValidDate(y, a, b)) => pd_out = ReadAs(y, a, b)

\* C25 witness: 5/3/2024, written for the fifth of March, was read as the
\* third of May.
C25_Witness ==
    /\ pd_in.kind = "text" /\ pd_in.f = 3 /\ pd_in.d = 5 /\ pd_in.m = 3
    /\ pd_in.y = 2024 /\ ~pd_in.pad /\ ~pd_in.ws
    /\ pd_out = ReadAs(2024, 5, 3)

\* 13-3-2024 was read by the earlier format, and 3-13-2024 by the later
C25_DashPair ==
    /\ pd_in.kind = "text" /\ pd_in.f = 6 /\ pd_in.d = 13 /\ pd_in.m = 3
    /\ pd_in.y = 2024
    /\ pd_out = ReadAs(2024, 3, 13)

\* -------------------------------------------------------------- claim C26

\* the rows the first call of the import added to its table
RowsAdded ==
    Len(ld_first.db[TableOf(ld_call.fn)]) - Len(ld_base.db[TableOf(ld_call.fn)])

\* C26 as stated: the number an import prints as imported is the number of
\* rows it added to its table, for every input.
C26_Original ==
    ld_phase \in {"companies", "once"} => ld_first.count = RowsAdded

\* the same for the inputs in which no key comes twice and no row of the
\* table has the key of an input row
C26_CountsStatements ==
    ld_phase \in {"companies", "once"} => ld_first.count >= RowsAdded

\* -------------------------------------------------------------- claim C27

\* a cell of the snapshot as pd.read_csv returns it: an empty field is NaN
CsvCell(c) == IF c = NaN \/ (c.k = "str" /\ c.s = <<>>) THEN NaN ELSE c

\* etl_import.py:145: index_membership_snapshot.csv as the loader reads it
ReadCsv(csv) ==
    [state |-> "ok",
     cols |-> csv.columns,
     rows |-> [i \in 1..Len(csv.out) |->
                  [index_id |-> csv.out[i].row.index_id,
                   as_of_date |-> StrCell(csv.out[i].row.as_of_date),
                   Ticker |-> CsvCell(StrCell(csv.out[i].row.Ticker)),
                   Weight |-> CsvCell(csv.out[i].row.Weight),
                   Shares |-> CsvCell(csv.out[i].row.Shares),
                   Price |-> CsvCell(csv.out[i].row.Price)]]]

\* a database that holds the companies A and B
TwoCompanies ==
    ImportCompanies(EmptyDb, [state |-> "ok",
                              rows |-> <<CompanyRow(T_A), CompanyRow(T_B)>>])

\* import_index_membership on the snapshot that was just saved
LoadSnapshot ==
    ImportIndexMembership(TwoCompanies.db, TwoCompanies.map, ReadCsv(cm_csv))

\* C27 as stated: a snapshot the consolidator has saved holds every column
\* the loader reads, and import_index_membership loads it without raising.
C27_Original ==
    cm_state = "saved" =>
        /\ MembCols \subseteq cm_csv.columns
        /\ ~LoadSnapshot.err

\* the loader raises on a saved snapshot only for a column that is missing,
\* and loads every snapshot made of exports that hold the five columns
C27_FullExportsLoad ==
    cm_state = "saved" =>
        /\ LoadSnapshot.err => ~(MembCols \subseteq cm_csv.columns)
        /\ (\E i \in 1..Len(cm_files) :
                {"Weight", "Shares", "Price"} \subseteq KeptColumns(cm_files[i]))
            => ~LoadSnapshot.err

\* a saved snapshot was loaded, and a row of it was stored
C27_Loaded ==
    /\ cm_state = "saved"
    /\ ~LoadSnapshot.err
    /\ LoadSnapshot.db.index_membership # <<>>

\* ------------------------- specification: the data loop of the price import
\* rows of the price workbook, the six rows above the data among them
MaxPriceRows == 406

\* etl_import.py:267: the loop commits after a row whose index is a multiple
commit_every == 200

\* the date in column 0 of data row r: one day per row
PriceDateOf(r) == DateCell(2005 + (r \div 336), ((r \div 28) % 12) + 1, (r % 28) + 1)

\* A price workbook of n rows with one ticker, A: every data row holds a
\* date and a price, except the rows of `undated`, whose date cell is a text
\* that is no date.
PriceSheetDf(sheet) ==
    WideDf(<<StrCell(T_A)>>, PriceLabels,
           [k \in 1..(sheet.len - 6) |->
               [date |-> IF (k + 5) \in sheet.undated THEN D_NONE
                         ELSE PriceDateOf(k + 5),
                cells |-> <<StrCell(<<"1">>), NaN>>]],
           4)

PriceSheets ==
    [len : {commit_every + 6, MaxPriceRows},
     undated : {{}, {commit_every}, {7}}]

otherThanPrices ==
    <<cleanVars, dateVars, fixVars, loadVars, etlVars, macroVars, colVars,
      combVars, expVars, catVars, vizVars>>

\* etl_import.py:194-231: the workbook was read and the loop begins; the
\* companies A and B were imported and committed before
StartPrices ==
    /\ macroalpha_db = TwoCompanies.db
    /\ id_map = TwoCompanies.map
    /\ pr_sheet \in PriceSheets
    /\ pr_row_idx = 6
    /\ pr_conn = [table |-> <<>>, map |-> TwoCompanies.map, count |-> 0]
    /\ pr_state = "loop"

InitPrices ==
    /\ StartPrices
    /\ IdleClean /\ IdleDate /\ IdleFix /\ IdleLoad /\ IdleEtl
    /\ IdleMacro /\ IdleCols /\ IdleComb /\ IdleExp /\ IdleCat /\ IdleViz

\* the state of the loop after the inserts of data row pr_row_idx of df
AfterPriceRowOf(df) ==
    PriceRow(pr_conn, macroalpha_db.companies, df,
             TickerCols(<<>>, Iloc(df, 3), Iloc(df, 4), 1),
             pr_row_idx, ParseBloombergDate(Cell(df, pr_row_idx, 0)))

AfterPriceRow == AfterPriceRowOf(PriceSheetDf(pr_sheet))

\* etl_import.py:234-237: the date of data row pr_row_idx does not parse and
\* `continue` ends the turn of the loop
PriceRowUndated(df) == ParseBloombergDate(Cell(df, pr_row_idx, 0)) = None

\* a loop that commits after every row whose index is a multiple, dated or not
PeriodicCommit_AnyRow(df, st) ==
    IF pr_row_idx % commit_every = 0
    THEN [macroalpha_db EXCEPT !.prices_weekly = st.table]
    ELSE macroalpha_db

\* etl_import.py:267-268: the database after the turn of row pr_row_idx that
\* left the connection in st
PeriodicCommit(df, st) ==
    IF ~PriceRowUndated(df) /\ pr_row_idx % commit_every = 0
    THEN [macroalpha_db EXCEPT !.prices_weekly = st.table]
    ELSE macroalpha_db

\* the turn of the loop that leaves the connection in st
PriceRowTurn(df, st) ==
    /\ pr_conn' = st
    /\ macroalpha_db' = PeriodicCommit(df, st)
    /\ id_map' = st.map

\* etl_import.py:233-269: one turn of the data loop, with the periodic commit
PriceRowStep ==
    /\ pr_state = "loop" /\ pr_row_idx < pr_sheet.len
    /\ PriceRowTurn(PriceSheetDf(pr_sheet), AfterPriceRow)
    /\ pr_row_idx' = pr_row_idx + 1
    /\ UNCHANGED <<pr_sheet, pr_state, otherThanPrices>>

\* an exception while data row pr_row_idx is processed, before its inserts
\* or after them, and before the periodic commit
PriceRowRaises ==
    /\ pr_state = "loop" /\ pr_row_idx < pr_sheet.len
    /\ \E inserted \in BOOLEAN :
           pr_conn' = IF inserted THEN AfterPriceRow ELSE pr_conn
    /\ pr_state' = "raised"
    /\ UNCHANGED <<pr_sheet, pr_row_idx, dbVars, otherThanPrices>>

\* etl_import.py:271-272: the commit after the loop
PriceLoopEnd ==
    /\ pr_state = "loop" /\ pr_row_idx = pr_sheet.len
    /\ macroalpha_db' = [macroalpha_db EXCEPT !.prices_weekly = pr_conn.table]
    /\ pr_state' = "returned"
    /\ UNCHANGED <<pr_sheet, pr_row_idx, pr_conn, id_map, otherThanPrices>>

\* etl_import.py:580-585: main prints the exception and closes the
\* connection; what was not committed is gone
PriceClose ==
    /\ pr_state = "raised"
    /\ pr_conn' = [pr_conn EXCEPT !.table = macroalpha_db.prices_weekly]
    /\ pr_state' = "closed"
    /\ UNCHANGED <<pr_sheet, pr_row_idx, dbVars, otherThanPrices>>

NextPrices ==
    \/ PriceRowStep
    \/ PriceRowRaises
    \/ PriceLoopEnd
    \/ PriceClose

SpecPrices == InitPrices /\ [][NextPrices]_vars

\* -------------------------------------------------------------- claim C28

\* the row of prices_weekly that data row r of the workbook inserts
PriceRowOf(r) ==
    [company_id |-> 1,
     price_date |-> IsoChars(PriceDateOf(r).y, PriceDateOf(r).m, PriceDateOf(r).d),
     close_price |-> CleanValue(StrCell(<<"1">>)),
     total_return |-> None,
     src_ticker |-> T_A]

\* the rows of prices_weekly that the data rows 6 .. last of the workbook
\* insert
RowsThrough(last) ==
    IF last < 6 THEN <<>>
    ELSE LET dated == SelectSeq([i \in 1..(last - 5) |-> i + 5],
                                LAMBDA r : r \notin pr_sheet.undated)
         IN  [i \in 1..Len(dated) |-> PriceRowOf(dated[i])]

\* the last row before row r that was processed (its date parsed, so that
\* the turn of the loop went on to the inserts) and whose index is a multiple
\* of 200; 0 for none
LastDatedMultiple(r) ==
    LET at == {k \in 6..(r - 1) : k % commit_every = 0 /\ k \notin pr_sheet.undated}
    IN  IF at = {} THEN 0 ELSE CHOOSE k \in at : \A j \in at : j <= k

\* C28: after import_prices_weekly failed in data row r, the table holds
\* the rows inserted up to and including the last processed row before r
\* whose index is a multiple of 200, and no row inserted after that commit;
\* a row without a date is passed over by `continue` and commits nothing.
C28_PeriodicCommitsRemain ==
    pr_state = "closed" =>
        macroalpha_db.prices_weekly = RowsThrough(LastDatedMultiple(pr_row_idx))

\* C28 witness: the import failed in row 203, after the commit of row 200:
\* the rows of the data rows 6 .. 200 are in the table and the rows inserted
\* after them are gone.
C28_Witness ==
    /\ pr_state = "closed"
    /\ pr_row_idx = commit_every + 3
    /\ pr_sheet.undated = {}
    /\ Len(macroalpha_db.prices_weekly) = commit_every - 5
    /\ pr_conn.count > commit_every - 5

\* -------------------------------------------------------------- claim C29

\* C29: on every path through main, with or without an exception, the
\* connection is closed in the end; it is closed by the finally clause only,
\* and main takes no step, so issues no database operation and no second
\* close, once the connection is closed.
C29_ClosedOnceAtTheEnd ==
    /\ <>(etl_conn = "closed")
    /\ [][/\ etl_conn = "open"
          /\ (etl_conn' = "closed" => etl_pc = Finally /\ etl_pc' = Ended)
          /\ (etl_conn' = "closed" => macroalpha_db' = macroalpha_db)]_vars

\* C29 witness: an import raised, main printed the error, and the
\* connection is closed.
C29_Witness ==
    /\ etl_conn = "closed"
    /\ etl_pc = Ended
    /\ \E k \in 1..Len(etl_log) : etl_log[k].result = "failed"
    /\ \E k \in 1..Len(etl_log) : etl_log[k].result = "ok"

\* all statements ran, and the connection is closed
C29_ClosedAfterSummary ==
    /\ etl_conn = "closed"
    /\ etl_log # <<>> /\ etl_log[Len(etl_log)].step = "summary"

\* ------------------------------- specification: the deleveraging chart
\* years of ANNUAL records of the company, from FirstYearOfDebt on
MaxYears == 5
\* the amounts of total debt a record may hold are 1 .. MaxDebt
MaxDebt == 4

\* the last year of records is 2024, as in the exports
FirstYearOfDebt == 2024 - MaxYears + 1
DebtYears == FirstYearOfDebt..(FirstYearOfDebt + MaxYears - 1)

\* NULL in a column of numbers or in a result of LAG
Null == 0 - 1
\* NULL in gics_sector_name
NullSector == "NULL"

\* visualizations.py:109-115, the CTE yearly_debt for one company: its
\* ANNUAL rows with a total_debt, in the order of period_end_date, each with
\* the total_debt of the row before it and of the row before that
YearlyDebt(debt, sector) ==
    IF sector = NullSector \/ sector = "Financials" THEN <<>>
    ELSE LET rows == SelectSeq([i \in 1..MaxYears |-> FirstYearOfDebt + i - 1],
                               LAMBDA y : debt[y] # Null)
         IN  [i \in 1..Len(rows) |->
                 [year |-> rows[i],
                  total_debt |-> debt[rows[i]],
                  prev1 |-> IF i > 1 THEN debt[rows[i - 1]] ELSE Null,
                  prev2 |-> IF i > 2 THEN debt[rows[i - 2]] ELSE Null]]

\* visualizations.py:117: is_delev of a row of yearly_debt
IsDelev(r) == IF r.total_debt < r.prev1 /\ r.prev1 < r.prev2 THEN 1 ELSE 0

\* visualizations.py:116-123: the CTE deleveraging and the final SELECT; the
\* company has one row a year, so each group holds one row
DeleveragingQuery(debt, sector) ==
    LET rows == SelectSeq(YearlyDebt(debt, sector), LAMBDA r : r.prev2 # Null)
    IN  [i \in 1..Len(rows) |->
            [year |-> rows[i].year,
             companies |-> 1,
             deleveraging |-> IsDelev(rows[i]),
             pct |-> IsDelev(rows[i]) * 100]]

\* visualizations.py:105: the database holds the records of the company
StartViz ==
    /\ viz_debt \in [DebtYears -> {Null} \cup 1..MaxDebt]
    /\ viz_sector \in {"Energy", "Financials", NullSector}
    /\ viz_df = Pending

InitViz == StartViz /\ IdleEarly /\ IdleCat /\ IdlePrices

\* visualizations.py:124: pd.read_sql_query(query, conn)
ReadSqlQuery ==
    /\ viz_df = Pending
    /\ viz_df' = [k |-> "df", rows |-> DeleveragingQuery(viz_debt, viz_sector)]
    /\ UNCHANGED <<viz_debt, viz_sector, earlyVars, catVars, priceVars>>

NextViz == ReadSqlQuery

SpecViz == InitViz /\ [][NextViz]_vars

\* -------------------------------------------------------------- claim C30

\* the rows of the chart in which the company is counted as deleveraging
Flagged == {i \in 1..Len(viz_df.rows) : viz_df.rows[i].deleveraging = 1}

\* total debt fell in year y: the records of y and of y - 1 exist, and the
\* debt of y is the smaller
FellIn(y) ==
    /\ y \in DebtYears /\ y - 1 \in DebtYears
    /\ viz_debt[y] # Null /\ viz_debt[y - 1] # Null
    /\ viz_debt[y] < viz_debt[y - 1]

\* C30 as stated: the chart counts the company in year Y only when its two
\* preceding annual records are those of Y-1 and Y-2 and its total debt fell
\* in three consecutive years ending in Y.
C30_Original ==
    viz_df # Pending =>
        \A i \in Flagged :
            /\ FellIn(viz_df.rows[i].year)
            /\ FellIn(viz_df.rows[i].year - 1)
            /\ FellIn(viz_df.rows[i].year - 2)

\* the part that asks for the records of Y-1 and Y-2 and two declines only
C30_ConsecutiveYears ==
    viz_df # Pending =>
        \A i \in Flagged : FellIn(viz_df.rows[i].year) /\ FellIn(viz_df.rows[i].year - 1)

\* what the query does flag: the last three records of the company that hold
\* a total debt, of whatever years, fall twice
C30_TwoDeclinesOverThreeRecords ==
    viz_df # Pending =>
        \A y \in DebtYears :
            (\E i \in Flagged : viz_df.rows[i].year = y) <=>
                /\ viz_sector = "Energy"
                /\ viz_debt[y] # Null
                /\ \E y1 \in DebtYears, y2 \in DebtYears :
                       /\ y2 < y1 /\ y1 < y
                       /\ viz_debt[y1] # Null /\ viz_debt[y2] # Null
                       /\ \A z \in (y2 + 1)..(y - 1) : z # y1 => viz_debt[z] = Null
                       /\ viz_debt[y] < viz_debt[y1] /\ viz_debt[y1] < viz_debt[y2]

\* a company whose debt fell in three consecutive years was counted
C30_Flagged ==
    /\ viz_df # Pending
    /\ \E i \in Flagged :
           /\ FellIn(viz_df.rows[i].year)
           /\ FellIn(viz_df.rows[i].year - 1)
           /\ FellIn(viz_df.rows[i].year - 2)

====
